---- MODULE Spec2Model ----
(***************************************************************************)
(* A model of the roof designer's core: the seeded random number          *)
(* generator (src/lib/rng), the procedural roof geometry generator        *)
(* (src/lib/roof/geometry.ts) and the zone placement engine of the plain  *)
(* script variant (script.js).                                            *)
(*                                                                         *)
(* Numbers.  The program computes in IEEE doubles; the model computes in  *)
(* integers.  Lengths are centimetres, tangents and normal components are *)
(* thousandths, efficiencies are exact fractions in lowest terms.  Every  *)
(* integer of the model fits a signed 32-bit word, so products that do    *)
(* not fit (the generator's  state * 1664525 ) are computed on 16-bit     *)
(* limbs.                                                                  *)
(***************************************************************************)
EXTENDS Integers, Sequences, FiniteSets, TLC

VARIABLES
    \* ---- SeededRNG instances under test (SpecRng)
    rngs,        \* generator name -> [seed, current], the object's two fields
    traces,      \* generator name -> next() outputs since construction or last reset
    firsts,      \* generator name -> next() outputs of the epoch before the first reset
    resets,      \* generator name -> number of reset() calls made
    seeds,       \* generator name -> the seed its constructor was given
    ret,         \* what the last call returned
    \* ---- roof geometry (SpecRoof)
    globalRNG,   \* the module-level generator behind getGlobalRNG / setGlobalSeed
    roofMemo,    \* the generateRoofGeometry result a caller holds on to (useMemo)
    roofLast,    \* the latest generateRoofGeometry / getRoofBounds call and its result
    \* ---- zone engine of script.js (SpecZones)
    zones,           \* the global zone list
    roofWidth,       \* value of the #roofWidth input, metres
    roofLength,      \* value of the #roofLength input, metres
    currentLocation, \* key into climateData
    currentZoneMode, \* the zone type a click on the roof places
    display,         \* text of #totalArea, #solarArea, #greenArea, #energyOutput
    zoneCall,        \* the last addZone call and how it ended; None once
                     \* another handler has run
    timers,          \* the setTimeout callbacks loadPrefab has scheduled, in order
    opt,             \* optimizeLayout: its locals while it runs
    \* ---- the React designer (SpecDesigner)
    components,  \* the `components` state of IndustrialRoofDesigner
    pending,     \* the setComponents updater queued for the next render
    published,   \* bom and metrics of the latest render; None before mounting
    clock,       \* Date.now(), milliseconds
    exported,    \* the file of the latest design export; None before the first
    selectedComponent,  \* the selectedComponent state: <<>> for undefined, <<id>>
    \* ---- building lookup (SpecSearch)
    search,      \* the latest searchBuildings call: its position and what it holds
    \* ---- building meshes (SpecBuilding)
    building,    \* the latest generateBuildingMesh call and its result
    \* ---- undo history (SpecHistory)
    manager,     \* an UndoRedoManager: its fields, and what the last call returned
    \* ---- planner store (SpecPlanner)
    planner      \* the zustand store, and the optimizeLayout calls awaiting their timeout

rngVars  == <<rngs, traces, firsts, resets, seeds, ret>>
roofVars == <<globalRNG, roofMemo, roofLast>>
zoneVars == <<zones, roofWidth, roofLength, currentLocation, currentZoneMode,
              display, zoneCall, timers, opt>>
designerVars == <<components, pending, published, clock, exported, selectedComponent>>
laterVars == <<building, manager, planner>>
vars     == <<rngVars, roofVars, zoneVars, designerVars, search, laterVars>>

\* what the handlers of one part of the program leave alone
outsideRng   == <<roofVars, zoneVars, designerVars, search, laterVars>>
outsideRoof  == <<rngVars, zoneVars, designerVars, search, laterVars>>
outsideZones == <<rngVars, roofVars, designerVars, search, laterVars>>
outsideDesigner == <<rngVars, roofVars, zoneVars, search, laterVars>>
outsideSearch   == <<rngVars, roofVars, zoneVars, designerVars, laterVars>>

None == [kind |-> "none"]

\* optimizeLayout is not running; runs counts its completed calls
OptIdle == [pc |-> "idle", runs |-> 0]

(***************************************************************************)
(* Arithmetic helpers                                                      *)
(***************************************************************************)
Abs(n) == IF n < 0 THEN -n ELSE n

Min(a, b) == IF a < b THEN a ELSE b

Max(a, b) == IF a > b THEN a ELSE b

\* Division rounding toward zero, d > 0.
TruncDiv(n, d) == IF n >= 0 THEN n \div d ELSE -((-n) \div d)

\* Euclid's algorithm on the pair p
Euclid[p \in Nat \X Nat] == IF p[2] = 0 THEN p[1] ELSE Euclid[<<p[2], p[1] % p[2]>>]

GCD(a, b) == Euclid[<<a, b>>]

RECURSIVE SqrtSearch(_, _, _)
SqrtSearch(n, lo, hi) ==
    IF lo >= hi THEN lo
    ELSE LET mid == (lo + hi + 1) \div 2
         IN  IF mid * mid <= n THEN SqrtSearch(n, mid, hi)
             ELSE SqrtSearch(n, lo, mid - 1)

\* floor(sqrt(n)) for 0 <= n < 2^31
ISqrt(n) == SqrtSearch(n, 0, 46340)

(***************************************************************************)
(* SeededRNG                                                               *)
(***************************************************************************)
LcgModulus == 2147483647

LcgMultiplier == 1664525

LcgIncrement == 1013904223

\* 2^16, the limb base
Limb == 256 * 256

\* (x + y) mod LcgModulus for 0 <= x, y <= LcgModulus, without leaving 32 bits
AddMod(x, y) ==
    LET s == IF x >= LcgModulus - y THEN x - (LcgModulus - y) ELSE x + y
    IN  IF s = LcgModulus THEN 0 ELSE s

\* (r * 65536) mod LcgModulus for 0 <= r < 2^31; 2^31 = 1 (mod 2^31 - 1)
ShiftLimbMod(r) ==
    LET s == (r % 32768) * Limb + (r \div 32768)
    IN  IF s = LcgModulus THEN 0 ELSE s

\* The exact value of current * 1664525 + 1013904223 as four 16-bit limbs,
\* least significant first.
LcgProduct(current) ==
    LET c0 == current % Limb
        c1 == current \div Limb
        a0 == LcgMultiplier % Limb
        a1 == LcgMultiplier \div Limb
        t0 == c0 * a0 + (LcgIncrement % Limb)
        t1 == c1 * a0 + c0 * a1 + (LcgIncrement \div Limb) + (t0 \div Limb)
        t2 == c1 * a1 + (t1 \div Limb)
    IN  <<t0 % Limb, t1 % Limb, t2 % Limb, t2 \div Limb>>

\* A double holds every integer below 2^53 exactly: the top limb (bits 48..)
\* must stay below 2^5.
DoubleExact(limbs) == limbs[4] < 32

\* limbs mod LcgModulus
LimbsMod(limbs) ==
    LET r3 == limbs[4] % LcgModulus
        r2 == AddMod(ShiftLimbMod(r3), limbs[3])
        r1 == AddMod(ShiftLimbMod(r2), limbs[2])
    IN  AddMod(ShiftLimbMod(r1), limbs[1])

\* ToInt32((hash << 5) - hash + char): one round of the string hash, on the
\* two's-complement halves of hash.
HashStep(hash, char) ==
    LET lo  == hash % Limb
        hi  == (hash \div Limb) % Limb
        slo == (lo * 32) % Limb
        shi == (hi * 32 + ((lo * 32) \div Limb)) % Limb
        t   == slo - lo + char
        rlo == t % Limb
        rhi == (shi - hi + (t \div Limb)) % Limb
    IN  IF rhi >= 32768 THEN (rhi - Limb) * Limb + rlo ELSE rhi * Limb + rlo

RECURSIVE HashChars(_, _)
HashChars(hash, chars) ==
    IF chars = <<>> THEN hash
    ELSE HashChars(HashStep(hash, Head(chars)), Tail(chars))

\* Math.abs(h) % 2147483647 for a 32-bit h; Math.abs(-2^31) = 2^31.
AbsModulus(h) == IF h = -2147483647 - 1 THEN 1 ELSE Abs(h) % LcgModulus

\* A seed is a number or a string; a string is the sequence of its char codes.
NumSeed(n) == [kind |-> "number", n |-> n]

StrSeed(chars) == [kind |-> "string", chars |-> chars]

hashSeed_NoModulus(seed) ==
    IF seed.kind = "number" THEN Abs(seed.n)
    ELSE AbsModulus(HashChars(0, seed.chars))

hashSeed(seed) ==
    IF seed.kind = "number" THEN Abs(seed.n) % LcgModulus
    ELSE AbsModulus(HashChars(0, seed.chars))

\* new SeededRNG(seed)
NewRNG(seed) == [seed |-> hashSeed(seed), current |-> hashSeed(seed)]

\* next(): the generator after the call; the value returned is
\* current / 2147483647, represented by its numerator current.
RngNext(rng) == [rng EXCEPT !.current = LimbsMod(LcgProduct(rng.current))]

RngReset_ToZero(rng) == [rng EXCEPT !.current = 0]

\* reset()
RngReset(rng) == [rng EXCEPT !.current = rng.seed]

\* floor(current * k / LcgModulus) for 0 <= current < 2^31, 0 < k <= 30000
FloorFraction(current, k) ==
    LET lowProd == (current % Limb) * k
        high    == (current \div Limb) * k + (lowProd \div Limb)
        q       == high \div 32768
        r       == (high % 32768) * Limb + (lowProd % Limb)
    IN  q + (IF r >= LcgModulus - q THEN 1 ELSE 0)

\* range(min, max) after next() left the generator at current, in thousandths
RangeValue(current, min, max) == min * 1000 + FloorFraction(current, (max - min) * 1000)

\* int(min, max) = floor(range(min, max + 1))
IntValue(current, min, max) == min + FloorFraction(current, max + 1 - min)

\* boolean() = next() < 0.5
BooleanValue(current) == current < LcgModulus - current

\* choice(array) = array[int(0, array.length - 1)]
ChoiceValue(current, array) == array[IntValue(current, 0, Len(array) - 1) + 1]

(***************************************************************************)
(* Roof geometry (src/lib/roof/geometry.ts)                                *)
(*                                                                         *)
(* RoofParams are [width, depth, overhang] in metres, pitch in degrees,    *)
(* type a string and seed a seed.  Coordinates are centimetres.            *)
(***************************************************************************)
\* centimetres per metre
Cm == 10 * 10

\* 1000 * Math.tan(pitch * Math.PI / 180), rounded, for the pitches the
\* model calls with.  tan(90 degrees) is 16331239353195370 in a double
\* (finite); it does not fit the model's integers, so pitches outside
\* [0, 90) are represented by -30 and 120.
Tan(pitch) ==
    CASE pitch = 0   -> 0
      [] pitch = 30  -> 577
      [] pitch = 45  -> 1000
      [] pitch = 60  -> 1732
      [] pitch = -30 -> -577
      [] pitch = 120 -> -1732

\* new THREE.Vector3(x, y, z)
Vec(x, y, z) == [x |-> x, y |-> y, z |-> z]

\* subVectors
SubVectors(a, b) == Vec(a.x - b.x, a.y - b.y, a.z - b.z)

\* crossVectors
CrossVectors(a, b) ==
    Vec(a.y * b.z - a.z * b.y, a.z * b.x - a.x * b.z, a.x * b.y - a.y * b.x)

\* Vector3.normalize(): divideScalar(length() || 1), the result in
\* thousandths.  The vector is first brought to 14 significant bits so that
\* the squares fit and the rounding stays below one thousandth.
Normalize(v) ==
    LET m == Max(Abs(v.x), Max(Abs(v.y), Abs(v.z)))
    IN  IF m = 0 THEN Vec(0, 0, 0)
        ELSE LET down == (m \div 16384) + 1
                 up   == 16384 \div m
                 w    == IF m >= 16384
                         THEN Vec(TruncDiv(v.x, down), TruncDiv(v.y, down), TruncDiv(v.z, down))
                         ELSE Vec(v.x * up, v.y * up, v.z * up)
                 len  == ISqrt(w.x * w.x + w.y * w.y + w.z * w.z)
             IN  Vec(TruncDiv(w.x * 1000, len), TruncDiv(w.y * 1000, len),
                     TruncDiv(w.z * 1000, len))

\* The i-th (0-based) entry of a JavaScript array held as a sequence
At(array, i) == array[i + 1]

\* The normal of the triangle whose first index is faces[i]
TriangleNormal(vertices, faces, i) ==
    LET v1 == At(vertices, At(faces, i))
        v2 == At(vertices, At(faces, i + 1))
        v3 == At(vertices, At(faces, i + 2))
    IN  Normalize(CrossVectors(SubVectors(v2, v1), SubVectors(v3, v1)))

\* The six uv numbers of the triangle starting at faces[i]
TriangleUVs(vertices, faces, i) ==
    LET v1 == At(vertices, At(faces, i))
        v2 == At(vertices, At(faces, i + 1))
        v3 == At(vertices, At(faces, i + 2))
        normal == TriangleNormal(vertices, faces, i)
        absX == Abs(normal.x)
        absY == Abs(normal.y)
        absZ == Abs(normal.z)
    IN  IF absY > absX /\ absY > absZ THEN <<v1.x, v1.z, v2.x, v2.z, v3.x, v3.z>>
        ELSE IF absZ > absX THEN <<v1.x, v1.y, v2.x, v2.y, v3.x, v3.y>>
        ELSE <<v1.y, v1.z, v2.y, v2.z, v3.y, v3.z>>

RECURSIVE FaceUVsFrom(_, _, _)
FaceUVsFrom(vertices, faces, i) ==
    IF i >= Len(faces) THEN <<>>
    ELSE TriangleUVs(vertices, faces, i) \o FaceUVsFrom(vertices, faces, i + 3)

\* generateFaceUVs
generateFaceUVs(vertices, faces) == FaceUVsFrom(vertices, faces, 0)

\* The sum of the normals of the triangles at faces[i], faces[i+3], ... that
\* have vertex index vi as a corner, once per corner, with the corner count.
\* normalOf[t] is the normal of triangle t.
RECURSIVE AccumulateNormals(_, _, _, _)
AccumulateNormals(normalOf, faces, vi, i) ==
    IF i >= Len(faces) THEN [sum |-> Vec(0, 0, 0), count |-> 0]
    ELSE LET rest == AccumulateNormals(normalOf, faces, vi, i + 3)
             hits == Cardinality({c \in 0..2 : At(faces, i + c) = vi})
             n    == normalOf[i \div 3]
         IN  IF hits = 0 THEN rest
             ELSE [sum |-> Vec(rest.sum.x + hits * n.x, rest.sum.y + hits * n.y,
                               rest.sum.z + hits * n.z),
                   count |-> rest.count + hits]

\* The averaged, re-normalized normal of vertex vi; zero when no face touches it
VertexNormal(normalOf, faces, vi) ==
    LET acc == AccumulateNormals(normalOf, faces, vi, 0)
    IN  IF acc.count > 0
        THEN Normalize(Vec(TruncDiv(acc.sum.x, acc.count), TruncDiv(acc.sum.y, acc.count),
                           TruncDiv(acc.sum.z, acc.count)))
        ELSE Vec(0, 0, 0)

RECURSIVE VertexNormalsFrom(_, _, _, _)
VertexNormalsFrom(normalOf, vertices, faces, vi) ==
    IF vi >= Len(vertices) THEN <<>>
    ELSE LET n == VertexNormal(normalOf, faces, vi)
         IN  <<n.x, n.y, n.z>> \o VertexNormalsFrom(normalOf, vertices, faces, vi + 1)

\* calculateFaceNormals: three numbers per vertex
calculateFaceNormals(vertices, faces) ==
    LET normalOf == [t \in 0..((Len(faces) \div 3) - 1) |->
                        TriangleNormal(vertices, faces, 3 * t)]
    IN  VertexNormalsFrom(normalOf, vertices, faces, 0)

RoofData_OneBasedFaces(vertices, faces) ==
    [vertices |-> vertices, faces |-> [k \in DOMAIN faces |-> faces[k] + 1],
     uvs |-> generateFaceUVs(vertices, faces),
     normals |-> calculateFaceNormals(vertices, faces)]

\* The RoofGeometry a generator returns.  Its `geometry` field, the
\* THREE.BufferGeometry built from the same four arrays, is not modelled.
RoofData(vertices, faces) ==
    [vertices |-> vertices, faces |-> faces,
     uvs |-> generateFaceUVs(vertices, faces),
     normals |-> calculateFaceNormals(vertices, faces)]

HalfWidth(params) == (params.width * Cm) \div 2 + params.overhang * Cm

HalfDepth(params) == (params.depth * Cm) \div 2 + params.overhang * Cm

\* The four base corners, vertices 0..3
BaseRectangle(params) ==
    <<Vec(-HalfWidth(params), 0, -HalfDepth(params)),
      Vec(HalfWidth(params), 0, -HalfDepth(params)),
      Vec(HalfWidth(params), 0, HalfDepth(params)),
      Vec(-HalfWidth(params), 0, HalfDepth(params))>>

\* script.js, createHipRoof: Math.tan(pitch * Math.PI / 180) * Math.min(width, length) / 4,
\* in centimetres
createHipRoofHeight(width, length, pitch) ==
    TruncDiv(Tan(pitch) * (Min(width, length) * Cm), 4000)

\* (span / 2) * Math.tan(pitchRad), span in metres, the result in centimetres
RidgeHeight(span, pitch) == TruncDiv(((span * Cm) \div 2) * Tan(pitch), 1000)

generateFlatRoof(params, rng) ==
    RoofData(BaseRectangle(params), <<0, 1, 2, 0, 2, 3>>)

GableFaces_WithoutBottom ==
    <<0, 4, 1>> \o <<2, 5, 3>> \o <<0, 3, 4, 3, 5, 4>> \o <<1, 4, 2, 4, 5, 2>>

\* front gable, back gable, left side, right side, bottom face
GableFaces ==
    <<0, 4, 1>> \o <<2, 5, 3>> \o <<0, 3, 4, 3, 5, 4>> \o <<1, 4, 2, 4, 5, 2>>
        \o <<0, 1, 2, 0, 2, 3>>

generateGableRoof(params, rng) ==
    LET ridgeHeight == RidgeHeight(params.width, params.pitch)
        vertices == BaseRectangle(params)
                    \o <<Vec(0, ridgeHeight, -HalfDepth(params)),
                         Vec(0, ridgeHeight, HalfDepth(params))>>
    IN  RoofData(vertices, GableFaces)

\* front hip, back hip, left side, right side, bottom face: the gable's list
HipFaces ==
    <<0, 4, 1>> \o <<2, 5, 3>> \o <<0, 3, 4, 3, 5, 4>> \o <<1, 4, 2, 4, 5, 2>>
        \o <<0, 1, 2, 0, 2, 3>>

generateHipRoof(params, rng) ==
    LET ridgeHeight == RidgeHeight(Min(params.width, params.depth), params.pitch)
        vertices == BaseRectangle(params)
                    \o <<Vec(0, ridgeHeight, -HalfDepth(params)),
                         Vec(0, ridgeHeight, HalfDepth(params))>>
    IN  RoofData(vertices, HipFaces)

\* A version that takes its generator from getGlobalRNG() and lets it move
\* the ridge, instead of a generator of its own that nothing reads.
generateRoofGeometry_GlobalRng(params) ==
    LET drawn == IF globalRNG.kind = "rng" THEN RngNext(globalRNG.rng).current % 7 ELSE 0
        data  == generateGableRoof(params, globalRNG)
    IN  [data EXCEPT !.vertices[5].y = @ + drawn, !.vertices[6].y = @ + drawn]

\* generateRoofGeometry(params): a generator of its own from params.seed,
\* then the generator function of the type, gable for any other type.
\* Every path returns: nothing in it throws.
generateRoofGeometry(params) ==
    LET rng == NewRNG(params.seed)
    IN  CASE params.type = "flat"  -> generateFlatRoof(params, rng)
          [] params.type = "gable" -> generateGableRoof(params, rng)
          [] params.type = "hip"   -> generateHipRoof(params, rng)
          [] OTHER                 -> generateGableRoof(params, rng)

\* getRoofBounds(params)
getRoofBounds(params) ==
    [width  |-> params.width * Cm + params.overhang * Cm * 2,
     depth  |-> params.depth * Cm + params.overhang * Cm * 2,
     height |-> IF params.type # "flat"
                THEN IF params.type = "gable"
                     THEN RidgeHeight(params.width, params.pitch)
                     ELSE IF params.type = "hip"
                     THEN RidgeHeight(Min(params.width, params.depth), params.pitch)
                     ELSE 0
                ELSE 0]

(***************************************************************************)
(* Exact fractions n/d in lowest terms, d > 0                              *)
(***************************************************************************)
\* The operators below go through functions of their operands, which are
\* applied to values: an operand is evaluated once however often it is used.
Fractions == [n : Int, d : Nat]

Reduced[p \in Int \X Nat] ==
    LET g == GCD(Abs(p[1]), p[2])
    IN  [n |-> p[1] \div g, d |-> p[2] \div g]

Rat(n, d) == Reduced[<<n, d>>]

Product[p \in Fractions \X Fractions] ==
    LET a  == p[1]
        b  == p[2]
        g1 == GCD(Abs(a.n), b.d)
        g2 == GCD(Abs(b.n), a.d)
    IN  Rat((a.n \div g1) * (b.n \div g2), (a.d \div g2) * (b.d \div g1))

RatMul(a, b) == Product[<<a, b>>]

Total[p \in Fractions \X Fractions] ==
    LET a == p[1]
        b == p[2]
        g == GCD(a.d, b.d)
    IN  Rat((a.n * (b.d \div g)) + (b.n * (a.d \div g)), (a.d \div g) * b.d)

RatAdd(a, b) == Total[<<a, b>>]

Less[p \in Fractions \X Fractions] == p[1].n * p[2].d < p[2].n * p[1].d

RatLess(a, b) == Less[<<a, b>>]

Lesser[p \in Fractions \X Fractions] == IF RatLess(p[2], p[1]) THEN p[2] ELSE p[1]

RatMin(a, b) == Lesser[<<a, b>>]

\* Math.round: the nearest integer, halves upward
MathRound(r) == ((2 * r.n) + r.d) \div (2 * r.d)

(***************************************************************************)
(* The zone engine (script.js).  Roof width and length are whole metres,   *)
(* zone positions are decimetres, zone sizes are whole metres.             *)
(***************************************************************************)
zoneConfigs ==
    [solar  |-> [efficiency |-> Rat(20, 100),  cost |-> 1500, maintenance |-> Rat(2, 100)],
     green  |-> [efficiency |-> Rat(85, 100),  cost |-> 800,  maintenance |-> Rat(5, 100)],
     water  |-> [efficiency |-> Rat(70, 100),  cost |-> 600,  maintenance |-> Rat(3, 100)],
     social |-> [efficiency |-> Rat(100, 100), cost |-> 400,  maintenance |-> Rat(1, 100)]]

climateData ==
    [copenhagen |-> [solar |-> 1000, rainfall |-> 600],
     stockholm  |-> [solar |-> 950,  rainfall |-> 550],
     oslo       |-> [solar |-> 900,  rainfall |-> 800],
     berlin     |-> [solar |-> 1100, rainfall |-> 580],
     amsterdam  |-> [solar |-> 1050, rainfall |-> 850]]

\* (z + length/2) / length with z in decimetres and length in metres
Southernness(z, length) == Rat(z + (5 * length), 10 * length)

\* calculateZoneEfficiency(type, x, z): reads the #roofLength input and the
\* current climate
calculateZoneEfficiency(type, x, z) ==
    LET length  == roofLength
        climate == climateData[currentLocation]
        efficiency == zoneConfigs[type].efficiency
    IN  IF type = "solar"
        THEN RatMul(RatMul(efficiency,
                           RatAdd(Rat(7, 10),
                                  RatMul(Southernness(z, length), Rat(3, 10)))),
                    Rat(climate.solar, 1000))
        ELSE IF type = "green"
        THEN RatMul(efficiency, RatMin(Rat(12, 10), Rat(climate.rainfall, 600)))
        ELSE efficiency

\* the zone record addZone stores (mesh and label left out)
ZoneRecord(x, z, type, size) ==
    [type        |-> type,
     area        |-> size * size,
     position    |-> [x |-> x, z |-> z],
     efficiency  |-> calculateZoneEfficiency(type, x, z),
     cost        |-> zoneConfigs[type].cost * size * size,
     maintenance |-> zoneConfigs[type].maintenance]

\* the sum of terms[lo..hi], halving the range
RECURSIVE IntSum(_, _, _)
IntSum(terms, lo, hi) ==
    IF lo > hi THEN 0
    ELSE IF lo = hi THEN terms[lo]
    ELSE LET mid == (lo + hi) \div 2
         IN  IntSum(terms, lo, mid) + IntSum(terms, mid + 1, hi)

RECURSIVE RatSum(_, _, _)
RatSum(terms, lo, hi) ==
    IF lo > hi THEN Rat(0, 1)
    ELSE IF lo = hi THEN terms[lo]
    ELSE LET mid == (lo + hi) \div 2
         IN  RatAdd(RatSum(terms, lo, mid), RatSum(terms, mid + 1, hi))

\* the area of the zones of `type` among the first i zones
AreaOfType(zs, type, i) ==
    IntSum([k \in 1..i |-> IF zs[k].type = type THEN zs[k].area ELSE 0], 1, i)

\* energyOutput += area * climate.solar * efficiency * 0.2 * 0.85
EnergyOutput(zs, solar, i) ==
    RatSum([k \in 1..i |->
               IF zs[k].type = "solar"
               THEN RatMul(Rat(zs[k].area * solar * 17, 100), zs[k].efficiency)
               ELSE Rat(0, 1)], 1, i)

TotalCost(zs, i) == IntSum([k \in 1..i |-> zs[k].cost], 1, i)

\* totalMaintenance += zone.cost * zone.maintenance
TotalMaintenance(zs, i) ==
    RatSum([k \in 1..i |-> RatMul(Rat(zs[k].cost, 1), zs[k].maintenance)], 1, i)

SolarCo2_PerZone(zs, solar, i) ==
    RatMul(EnergyOutput(zs, solar, i), Rat(1, 5000))

\* the solar zones' share of co2Reduction, kilograms: at each solar zone
\* co2Reduction += energyOutput * 0.0002, energyOutput being the running
\* sum, so the energy of solar zone k is counted once for each solar zone
\* from k to i
SolarCo2(zs, solar, i) ==
    RatSum([k \in 1..i |->
               IF zs[k].type = "solar"
               THEN RatMul(RatMul(Rat(zs[k].area * solar * 17, 100), zs[k].efficiency),
                           Rat(Cardinality({j \in k..i : zs[j].type = "solar"}), 5000))
               ELSE Rat(0, 1)], 1, i)

\* the green zones' share of co2Reduction, kilograms: area * 20 * efficiency
GreenCo2(zs, i) ==
    RatSum([k \in 1..i |->
               IF zs[k].type = "green"
               THEN RatMul(Rat(zs[k].area * 20, 1), zs[k].efficiency)
               ELSE Rat(0, 1)], 1, i)

\* calculateAdvancedMetrics over zone list zs.  co2Reduction is kept in
\* kilograms (the code divides by 1000 on return) and as its two addends,
\* whose common denominator does not fit a 32-bit word.
calculateAdvancedMetrics(zs, width, length, location) ==
    LET climate   == climateData[location]
        solarArea == AreaOfType(zs, "solar", Len(zs))
        greenArea == AreaOfType(zs, "green", Len(zs))
        waterArea == AreaOfType(zs, "water", Len(zs))
        socialArea == AreaOfType(zs, "social", Len(zs))
    IN  [totalArea    |-> width * length,
         solarArea    |-> solarArea,
         greenArea    |-> greenArea,
         waterArea    |-> waterArea,
         socialArea   |-> socialArea,
         energyOutput |-> EnergyOutput(zs, climate.solar, Len(zs)),
         waterRetention |-> Rat((greenArea + waterArea) * climate.rainfall * 7, 10000),
         co2Reduction |-> [solar |-> SolarCo2(zs, climate.solar, Len(zs)),
                           green |-> GreenCo2(zs, Len(zs))],
         totalCost    |-> TotalCost(zs, Len(zs)),
         totalMaintenance |-> TotalMaintenance(zs, Len(zs)),
         efficiency   |-> Rat(solarArea + greenArea + waterArea + socialArea,
                              width * length)]

\* updateMetrics: what it writes into the four display fields
updateMetrics(zs, width, length, location) ==
    LET metrics == calculateAdvancedMetrics(zs, width, length, location)
    IN  [totalArea    |-> metrics.totalArea,
         solarArea    |-> metrics.solarArea,
         greenArea    |-> metrics.greenArea,
         energyOutput |-> MathRound(metrics.energyOutput)]

(***************************************************************************)
(* The parts of the program a specification leaves untouched               *)
(***************************************************************************)
RoofIdle ==
    /\ globalRNG = None
    /\ roofMemo = None
    /\ roofLast = None

\* IndustrialRoofDesigner is not mounted
DesignerIdle ==
    /\ components = <<>>
    /\ pending = None
    /\ published = None
    /\ clock = 0
    /\ exported = None
    /\ selectedComponent = <<>>

\* searchBuildings has not been called
SearchIdle == search = None

\* generateBuildingMesh has not been called, no UndoRedoManager and no
\* planner store is in use
LaterIdle == building = None /\ manager = None /\ planner = None

ZoneIdle ==
    /\ zones = <<>>
    /\ roofWidth = 20
    /\ roofLength = 15
    /\ currentLocation = "copenhagen"
    /\ currentZoneMode = "solar"
    /\ display = updateMetrics(<<>>, 20, 15, "copenhagen")
    /\ zoneCall = None
    /\ timers = <<>>
    /\ opt = OptIdle

(***************************************************************************)
(* SpecRng: two SeededRNG objects and the calls made on them               *)
(***************************************************************************)
\* next() calls modelled per epoch (between construction / reset and the next reset)
MaxDraws == 2

\* reset() calls modelled per generator
MaxResets == 1

Gens == {"a", "b"}

\* "x", "roof-1" (hashes to a negative 32-bit value), "" and numbers,
\* among them the modulus itself and a negative number.
SeedSet ==
    { StrSeed(<<120>>), StrSeed(<<114, 111, 111, 102, 45, 49>>), StrSeed(<<>>),
      NumSeed(0), NumSeed(42), NumSeed(-42), NumSeed(2147483647) }

RangeArgs == { <<3, 7>> }

IntArgs == { <<0, 3>> }

ChoiceArgs == { <<"solar", "green", "water", "social">> }

\* Every variable of the generators' part is left as constructed.
RngIdle ==
    /\ rngs = [g \in Gens |-> NewRNG(NumSeed(0))]
    /\ traces = [g \in Gens |-> <<>>]
    /\ firsts = [g \in Gens |-> <<>>]
    /\ resets = [g \in Gens |-> 0]
    /\ seeds = [g \in Gens |-> NumSeed(0)]
    /\ ret = None

\* The state change of one next() call, shared by every drawing method.
Drawn(g) ==
    LET after == RngNext(rngs[g])
    IN  /\ rngs' = [rngs EXCEPT ![g] = after]
        /\ traces' = [traces EXCEPT ![g] = Append(@, after.current)]
        /\ firsts' = IF resets[g] = 0
                     THEN [firsts EXCEPT ![g] = Append(@, after.current)]
                     ELSE firsts

CallNext(g) ==
    /\ Len(traces[g]) < MaxDraws
    /\ Drawn(g)
    /\ ret' = [kind |-> "call", op |-> "next", value |-> RngNext(rngs[g]).current]
    /\ UNCHANGED <<resets, seeds, outsideRng>>

CallRange(g) ==
    /\ Len(traces[g]) < MaxDraws
    /\ Drawn(g)
    /\ \E a \in RangeArgs :
          ret' = [kind |-> "call", op |-> "range",
                  value |-> RangeValue(RngNext(rngs[g]).current, a[1], a[2])]
    /\ UNCHANGED <<resets, seeds, outsideRng>>

CallInt(g) ==
    /\ Len(traces[g]) < MaxDraws
    /\ Drawn(g)
    /\ \E a \in IntArgs :
          ret' = [kind |-> "call", op |-> "int",
                  value |-> IntValue(RngNext(rngs[g]).current, a[1], a[2])]
    /\ UNCHANGED <<resets, seeds, outsideRng>>

CallBoolean(g) ==
    /\ Len(traces[g]) < MaxDraws
    /\ Drawn(g)
    /\ ret' = [kind |-> "call", op |-> "boolean", value |-> BooleanValue(RngNext(rngs[g]).current)]
    /\ UNCHANGED <<resets, seeds, outsideRng>>

CallChoice(g) ==
    /\ Len(traces[g]) < MaxDraws
    /\ Drawn(g)
    /\ \E a \in ChoiceArgs :
          ret' = [kind |-> "call", op |-> "choice",
                  value |-> ChoiceValue(RngNext(rngs[g]).current, a)]
    /\ UNCHANGED <<resets, seeds, outsideRng>>

CallReset(g) ==
    /\ resets[g] < MaxResets
    /\ rngs' = [rngs EXCEPT ![g] = RngReset(@)]
    /\ traces' = [traces EXCEPT ![g] = <<>>]
    /\ resets' = [resets EXCEPT ![g] = @ + 1]
    /\ ret' = [kind |-> "call", op |-> "reset"]
    /\ UNCHANGED <<firsts, seeds, outsideRng>>

InitRng ==
    /\ seeds \in [Gens -> SeedSet]
    /\ rngs = [g \in Gens |-> NewRNG(seeds[g])]
    /\ traces = [g \in Gens |-> <<>>]
    /\ firsts = [g \in Gens |-> <<>>]
    /\ resets = [g \in Gens |-> 0]
    /\ ret = None
    /\ RoofIdle
    /\ ZoneIdle
    /\ DesignerIdle
    /\ LaterIdle
    /\ SearchIdle

NextRng ==
    \E g \in Gens :
        \/ CallNext(g)
        \/ CallRange(g)
        \/ CallInt(g)
        \/ CallBoolean(g)
        \/ CallChoice(g)
        \/ CallReset(g)

SpecRng == InitRng /\ [][NextRng]_vars

(***************************************************************************)
(* SpecRoof: callers of generateRoofGeometry and getRoofBounds, and the    *)
(* module-level generator they share the module with                       *)
(***************************************************************************)
\* next() calls modelled on the global generator after it was (re)seeded
MaxGlobalDraws == 1

RoofTypes == {"flat", "gable", "hip", "shed"}

KnownRoofTypes == {"flat", "gable", "hip"}

Params(type, width, depth, pitch, overhang, seed) ==
    [type |-> type, width |-> width, depth |-> depth, pitch |-> pitch,
     overhang |-> overhang, seed |-> seed]

\* RoofParams as section 3 of the specification constrains them
ValidParams(p) ==
    /\ p.width > 0
    /\ p.depth > 0
    /\ p.pitch >= 0 /\ p.pitch < 90
    /\ p.overhang >= 0

\* Valid parameters of every type (a wide and a deep footprint, a zero and a
\* positive pitch, with and without overhang, a string and a number seed)
\* and parameters with a non-positive width or depth or a pitch outside
\* [0, 90).
ParamSet ==
    { Params(t, x[1], x[2], x[3], x[4], StrSeed(<<120>>)) :
        t \in RoofTypes,
        x \in {<<10, 8, 30, 0>>, <<6, 8, 30, 1>>, <<10, 8, 0, 0>>, <<6, 8, 0, 1>>} }
    \cup { Params(t, 10, 8, 30, 0, NumSeed(42)) : t \in {"gable", "hip"} }
    \cup { Params("gable", x[1], x[2], x[3], 0, StrSeed(<<120>>)) :
             x \in {<<0, 8, 30>>, <<10, 0, 30>>, <<-4, 8, 30>>, <<10, 8, -30>>, <<10, 8, 120>>} }
    \cup { Params("flat", 0, 8, 30, 0, StrSeed(<<120>>)),
           Params("hip", 10, 8, 120, 0, StrSeed(<<120>>)) }

\* generateRoofGeometry over ParamSet, evaluated once
RoofGeometryOf == [p \in ParamSet |-> generateRoofGeometry(p)]

\* Date.now() when getGlobalRNG() finds no generator
ClockSeeds == {NumSeed(1700000000)}

GlobalSeeds == {StrSeed(<<120>>)}

\* A call of generateRoofGeometry(p) returns; the caller sees its result.
\* `module` notes the state of the global generator the call was made in.
CallGenerateRoofGeometry(p) ==
    /\ roofLast' = [kind |-> "generate", params |-> p, outcome |-> "returned",
                    data |-> RoofGeometryOf[p], module |-> globalRNG]
    /\ UNCHANGED <<globalRNG, roofMemo, outsideRoof>>

\* useMemo keeps the geometry it was handed until params change
Memoize ==
    /\ roofLast.kind = "generate"
    /\ roofMemo' = roofLast
    /\ UNCHANGED <<globalRNG, roofLast, outsideRoof>>

CallGetRoofBounds(p) ==
    /\ roofLast' = [kind |-> "bounds", params |-> p, bounds |-> getRoofBounds(p)]
    /\ UNCHANGED <<globalRNG, roofMemo, outsideRoof>>

\* setGlobalSeed(seed)
SetGlobalSeed(seed) ==
    /\ globalRNG' = [kind |-> "rng", rng |-> NewRNG(seed), draws |-> 0]
    /\ UNCHANGED <<roofMemo, roofLast, outsideRoof>>

\* getGlobalRNG().next()
GlobalNext ==
    /\ \/ /\ globalRNG.kind = "none"
          /\ \E t \in ClockSeeds :
                globalRNG' = [kind |-> "rng", rng |-> RngNext(NewRNG(t)), draws |-> 1]
       \/ /\ globalRNG.kind = "rng"
          /\ globalRNG.draws < MaxGlobalDraws
          /\ globalRNG' = [globalRNG EXCEPT !.rng = RngNext(@), !.draws = @ + 1]
    /\ UNCHANGED <<roofMemo, roofLast, outsideRoof>>

InitRoof ==
    /\ globalRNG = None
    /\ roofMemo = None
    /\ roofLast = None
    /\ RngIdle
    /\ ZoneIdle
    /\ DesignerIdle
    /\ LaterIdle
    /\ SearchIdle

NextRoof ==
    \/ \E p \in ParamSet : CallGenerateRoofGeometry(p)
    \/ Memoize
    \/ \E p \in ParamSet : CallGetRoofBounds(p)
    \/ \E seed \in GlobalSeeds : SetGlobalSeed(seed)
    \/ GlobalNext

SpecRoof == InitRoof /\ [][NextRoof]_vars

(***************************************************************************)
(* SpecZones: the zone engine's handlers                                   *)
(***************************************************************************)
MaxZones == 2

\* values of the #roofWidth and #roofLength sliders, metres
RoofSizes == {<<20, 15>>, <<10, 20>>}

LocationSet == {"copenhagen", "oslo"}

\* "wind" is a type zoneConfigs has no entry for
ZoneTypeSet == {"solar", "green", "water", "social", "wind"}

\* zone centres, decimetres: north of the roof's centre and at it
ZSet == {-90, 0}

\* the modes setZoneMode is called with
ModeSet == {"solar", "wind"}

XSet == {0}

\* 3 + Math.random() * 4
SizeSet == {3, 4}

AddZoneCall(x, z, type, outcome) ==
    [kind |-> "addZone", x |-> x, z |-> z, type |-> type, outcome |-> outcome]

\* addZone(x, z, type) drawing `size`: zoneConfigs[type] is undefined for a
\* type without an entry and reading config.height throws before the push
addZone(x, z, type, size) ==
    IF type \in DOMAIN zoneConfigs
    THEN /\ zones' = Append(zones, ZoneRecord(x, z, type, size))
         /\ display' = updateMetrics(zones', roofWidth, roofLength, currentLocation)
         /\ zoneCall' = AddZoneCall(x, z, type, "returned")
    ELSE /\ zoneCall' = AddZoneCall(x, z, type, "threw")
         /\ UNCHANGED <<zones, display>>

\* a layout routine or the console calls addZone(x, z, type)
CallAddZone(x, z, type, size) ==
    /\ Len(zones) < MaxZones
    /\ addZone(x, z, type, size)
    /\ UNCHANGED <<roofWidth, roofLength, currentLocation, currentZoneMode,
                   timers, opt, outsideZones>>

\* onMouseClick with the ray hitting the roof mesh at (px, pz): the roof
\* mesh spans [-width/2, width/2] x [-length/2, length/2]
OnMouseClick(px, pz, size) ==
    /\ Len(zones) < MaxZones
    /\ 2 * Abs(px) <= 10 * roofWidth
    /\ 2 * Abs(pz) <= 10 * roofLength
    /\ LET roofY == roofWidth   \* width * 0.1 metres, in decimetres
       IN  addZone(px, pz - roofY, currentZoneMode, size)
    /\ UNCHANGED <<roofWidth, roofLength, currentLocation, currentZoneMode,
                   timers, opt, outsideZones>>

\* setZoneMode(mode): the assignment comes first, then the button lookup,
\* which finds no button for a mode that is not a zone type
SetZoneMode(mode) ==
    /\ currentZoneMode' = mode
    /\ zoneCall' = None
    /\ UNCHANGED <<zones, roofWidth, roofLength, currentLocation, display,
                   timers, opt, outsideZones>>

\* clearZones() without its updateMetrics() call
ClearZones_NoUpdate ==
    /\ zones' = <<>>
    /\ zoneCall' = None
    /\ UNCHANGED <<roofWidth, roofLength, currentLocation, currentZoneMode,
                   display, timers, opt, outsideZones>>

\* clearZones(): the list is emptied and updateMetrics() runs
ClearZones ==
    /\ zones' = <<>>
    /\ display' = updateMetrics(zones', roofWidth, roofLength, currentLocation)
    /\ zoneCall' = None
    /\ UNCHANGED <<roofWidth, roofLength, currentLocation, currentZoneMode,
                   timers, opt, outsideZones>>

\* the #location select changes to `location` and updateClimate runs
UpdateClimate(location) ==
    /\ currentLocation' = location
    /\ display' = updateMetrics(zones, roofWidth, roofLength, currentLocation')
    /\ zoneCall' = None
    /\ UNCHANGED <<zones, roofWidth, roofLength, currentZoneMode, timers, opt, outsideZones>>

\* the sliders move to `size` and updateRoof -> createBuilding runs
UpdateRoof(size) ==
    /\ roofWidth' = size[1]
    /\ roofLength' = size[2]
    /\ display' = updateMetrics(zones, roofWidth', roofLength', currentLocation)
    /\ zoneCall' = None
    /\ UNCHANGED <<zones, currentLocation, currentZoneMode, timers, opt, outsideZones>>

\* the state init() leaves: createBuilding, setZoneMode('solar'),
\* updateClimate()
InitZones ==
    /\ zones = <<>>
    /\ \E size \in RoofSizes : roofWidth = size[1] /\ roofLength = size[2]
    /\ currentLocation \in LocationSet
    /\ currentZoneMode = "solar"
    /\ display = updateMetrics(zones, roofWidth, roofLength, currentLocation)
    /\ zoneCall = None
    /\ timers = <<>>
    /\ opt = OptIdle
    /\ RngIdle
    /\ RoofIdle
    /\ DesignerIdle
    /\ LaterIdle
    /\ SearchIdle

NextZones ==
    \/ \E x \in XSet, z \in ZSet, type \in ZoneTypeSet, size \in SizeSet :
          CallAddZone(x, z, type, size)
    \/ \E px \in XSet, z \in ZSet, size \in SizeSet :
          OnMouseClick(px, z + roofWidth, size)
    \/ \E mode \in ModeSet : SetZoneMode(mode)
    \/ ClearZones
    \/ \E location \in LocationSet : UpdateClimate(location)
    \/ \E size \in RoofSizes : UpdateRoof(size)

SpecZones == InitZones /\ [][NextZones]_vars

(***************************************************************************)
(* Claims about SeededRNG                                                  *)
(***************************************************************************)
\* s and t agree wherever both are defined
Agree(s, t) == \A k \in 1..Min(Len(s), Len(t)) : s[k] = t[k]

\* C8: the k-th next() output depends only on the seed: generators built from
\* equal seeds agree on every output both have produced, and after reset() a
\* generator replays the outputs of its first epoch, whichever drawing
\* methods were called before.
C8_SeedDeterminesSequence ==
    \A g \in Gens : \A h \in Gens :
        seeds[g] = seeds[h] =>
            /\ Agree(traces[g], traces[h])
            /\ Agree(firsts[g], firsts[h])
            /\ Agree(traces[g], firsts[h])

\* Both generators share a string seed, "a" was reset after drawing with
\* choice and others and has replayed MaxDraws outputs.
C8_Witness ==
    /\ seeds["a"] = seeds["b"]
    /\ seeds["a"].kind = "string"
    /\ resets["a"] >= 1
    /\ Len(firsts["a"]) >= 2
    /\ Len(traces["a"]) >= 2
    /\ Len(traces["b"]) >= 2
    /\ ret.kind = "call" /\ ret.op = "choice"

\* (a * b) mod LcgModulus by doubling, the reference for the limb arithmetic
RECURSIVE MulModRef(_, _)
MulModRef(a, b) ==
    IF b = 0 THEN 0
    ELSE LET half == MulModRef(a, b \div 2)
             dbl  == AddMod(half, half)
         IN  IF b % 2 = 1 THEN AddMod(dbl, a % LcgModulus) ELSE dbl

\* (state * 1664525 + 1013904223) mod 2147483647
LcgRef(state) == AddMod(MulModRef(state, LcgMultiplier), LcgIncrement)

InLcgRange(n) == n \in 0..(LcgModulus - 1)

\* C9: the state is an integer of [0, 2147483646] after construction and
\* after every step, the product each step forms is exact in a double, each
\* output is the LCG successor of the one before (of the hashed seed for the
\* first), and so every next() value current / 2147483647 is in [0, 1).
C9_StateInRangeAndLcgStep ==
    \A g \in Gens :
        /\ InLcgRange(rngs[g].seed)
        /\ InLcgRange(rngs[g].current)
        /\ DoubleExact(LcgProduct(rngs[g].current))
        /\ \A k \in 1..Len(traces[g]) :
              /\ InLcgRange(traces[g][k])
              /\ traces[g][k] = LcgRef(IF k = 1 THEN rngs[g].seed ELSE traces[g][k - 1])
        /\ (Len(traces[g]) > 0 => rngs[g].current = traces[g][Len(traces[g])])

\* The generator seeded with "roof-1", whose hash is negative before
\* Math.abs, has made two steps through next().
C9_Witness ==
    /\ seeds["a"] = StrSeed(<<114, 111, 111, 102, 45, 49>>)
    /\ rngs["a"].seed = 925326984
    /\ Len(traces["a"]) = 2
    /\ ret.kind = "call" /\ ret.op = "next" /\ ret.value = rngs["a"].current

(***************************************************************************)
(* Claims about the roof geometry generator                                *)
(***************************************************************************)
SameArrays(d, e) ==
    /\ d.vertices = e.vertices
    /\ d.faces = e.faces
    /\ d.normals = e.normals
    /\ d.uvs = e.uvs

C2_FacesIndexVertices ==
    roofLast.kind = "generate" =>
        /\ Len(roofLast.data.faces) % 3 = 0
        /\ \A k \in 1..Len(roofLast.data.faces) :
              /\ roofLast.data.faces[k] >= 0
              /\ roofLast.data.faces[k] < Len(roofLast.data.vertices)

\* A geometry was returned for the unrecognized type "shed".
C2_Witness ==
    /\ roofLast.kind = "generate"
    /\ roofLast.params.type = "shed"
    /\ Len(roofLast.data.faces) > 0

\* The triangles of a geometry, numbered from 0, and their corners
Triangles(data) == 0..((Len(data.faces) \div 3) - 1)

Corner(data, t, c) == At(data.vertices, At(data.faces, 3 * t + c))

\* A triangle of base corners only
IsBottomTriangle(data, t) == \A c \in 0..2 : At(data.faces, 3 * t + c) \in 0..3

\* A triangle standing in one of the planes z = constant
IsGableEndTriangle(data, t) ==
    /\ ~IsBottomTriangle(data, t)
    /\ \A c \in 1..2 : Corner(data, t, c).z = Corner(data, t, 0).z

\* A triangle of the slope on side s (-1: x <= 0, 1: x >= 0)
IsSlopeTriangle(data, t, s) ==
    /\ ~IsBottomTriangle(data, t)
    /\ ~IsGableEndTriangle(data, t)
    /\ \A c \in 0..2 : Corner(data, t, c).x * s >= 0

GableParams(p) == p.type = "gable" /\ ValidParams(p)

C4_HipSingleApex ==
    (/\ roofLast.kind = "generate"
     /\ roofLast.params.type = "hip"
     /\ ValidParams(roofLast.params)) =>
        LET data == roofLast.data
            p    == roofLast.params
            roofFaces == {t \in Triangles(data) : ~IsBottomTriangle(data, t)}
        IN  /\ Cardinality(roofFaces) = 4
            /\ \E apex \in 0..(Len(data.vertices) - 1) :
                  /\ At(data.vertices, apex).x = 0
                  /\ At(data.vertices, apex).z = 0
                  /\ At(data.vertices, apex).y = createHipRoofHeight(p.width, p.depth, p.pitch)
                  /\ \A t \in roofFaces : \E c \in 0..2 : At(data.faces, 3 * t + c) = apex

RECURSIVE SeqMax(_)
SeqMax(s) == IF Len(s) = 1 THEN s[1] ELSE Max(s[1], SeqMax(Tail(s)))

RECURSIVE SeqMin(_)
SeqMin(s) == IF Len(s) = 1 THEN s[1] ELSE Min(s[1], SeqMin(Tail(s)))

ExtentX(data) ==
    LET xs == [i \in DOMAIN data.vertices |-> data.vertices[i].x]
    IN  SeqMax(xs) - SeqMin(xs)

ExtentZ(data) ==
    LET zs == [i \in DOMAIN data.vertices |-> data.vertices[i].z]
    IN  SeqMax(zs) - SeqMin(zs)

PeakY(data) == SeqMax([i \in DOMAIN data.vertices |-> data.vertices[i].y])

\* C5: for every RoofParams, of any type, getRoofBounds(p) has the X and Z
\* extent and the largest vertex Y of generateRoofGeometry(p).
C5_BoundsAgreeWithGeometry ==
    (/\ roofLast.kind = "bounds"
     /\ roofMemo.kind = "generate"
     /\ roofLast.params = roofMemo.params
     /\ ValidParams(roofLast.params)) =>
        /\ roofLast.bounds.width = ExtentX(roofMemo.data)
        /\ roofLast.bounds.depth = ExtentZ(roofMemo.data)
        /\ roofLast.bounds.height = PeakY(roofMemo.data)

\* What C6 calls invalid
RejectedByClaim(p) == p.width <= 0 \/ p.depth <= 0 \/ p.pitch < 0 \/ p.pitch >= 90

\* C6: a call with width <= 0, depth <= 0 or a pitch outside [0, 90) ends
\* in an error and returns no geometry.
C6_InvalidParamsRejected ==
    (roofLast.kind = "generate" /\ RejectedByClaim(roofLast.params)) =>
        roofLast.outcome = "error"

(***************************************************************************)
(* Claims about unknown type strings and about zone efficiency            *)
(***************************************************************************)
\* generateRoofGeometry with a type it does not know returns what it returns
\* for 'gable'
UnknownRoofTypeIsGable ==
    (roofLast.kind = "generate" /\ roofLast.params.type \notin KnownRoofTypes)
        => SameArrays(roofLast.data,
                      generateRoofGeometry([roofLast.params EXCEPT !.type = "gable"]))

\* the zone list after an addZone call that returned: its last entry is the
\* zone asked for and the display shows the metrics of the list
ZoneListConsistent ==
    /\ Len(zones) > 0
    /\ zones[Len(zones)].type = zoneCall.type
    /\ zones[Len(zones)].position = [x |-> zoneCall.x, z |-> zoneCall.z]
    /\ display = updateMetrics(zones, roofWidth, roofLength, currentLocation)

\* C7: an unrecognized type string never makes a core operation throw:
\* generateRoofGeometry with an unknown roof type returns the geometry of
\* 'gable', and every addZone call, also one with an unknown zone type,
\* returns normally and leaves a consistent zone list.
C7_UnknownTypeNeverThrows ==
    /\ UnknownRoofTypeIsGable
    /\ zoneCall.kind = "addZone" =>
          /\ zoneCall.outcome = "returned"
          /\ ZoneListConsistent

Clamp01(r) ==
    IF r.n < 0 THEN Rat(0, 1) ELSE IF r.n > r.d THEN Rat(1, 1) ELSE r

\* baseEfficiency * (0.7 + 0.3 * s) * (solarIrradiance / 1000), s clamped
ClampedSolarEfficiency(z, length, location) ==
    RatMul(RatMul(zoneConfigs["solar"].efficiency,
                  RatAdd(Rat(7, 10),
                         RatMul(Clamp01(Southernness(z, length)), Rat(3, 10)))),
           Rat(climateData[location].solar, 1000))

SolarZoneJustAdded ==
    /\ zoneCall.kind = "addZone"
    /\ zoneCall.outcome = "returned"
    /\ zoneCall.type = "solar"

\* C10: a solar zone placed by addZone at any z, also outside the roof,
\* stores the efficiency base * (0.7 + 0.3 * s) * irradiance / 1000 with
\* s = (z + depth/2) / depth clamped to [0, 1]; at the centre of a roof in
\* a climate with irradiance 1000 that is 0.17.
C10_SolarEfficiencyClamped ==
    SolarZoneJustAdded =>
        /\ zones[Len(zones)].efficiency
              = ClampedSolarEfficiency(zoneCall.z, roofLength, currentLocation)
        /\ (zoneCall.z = 0 /\ climateData[currentLocation].solar = 1000)
              => zones[Len(zones)].efficiency = Rat(17, 100)

(***************************************************************************)
(* Claims about the zone metrics                                           *)
(***************************************************************************)
MetricsOf(zs) == calculateAdvancedMetrics(zs, roofWidth, roofLength, currentLocation)

\* the per-type areas and the costs of A ++ B are the sums of those of A and B
PerTypeAndCostAdditive(mAB, mA, mB) ==
    /\ mAB.solarArea = mA.solarArea + mB.solarArea
    /\ mAB.greenArea = mA.greenArea + mB.greenArea
    /\ mAB.waterArea = mA.waterArea + mB.waterArea
    /\ mAB.socialArea = mA.socialArea + mB.socialArea
    /\ mAB.totalCost = mA.totalCost + mB.totalCost
    /\ mAB.totalMaintenance = RatAdd(mA.totalMaintenance, mB.totalMaintenance)

\* C11: the metrics are additive in the area and cost fields: for every way
\* of writing the zone list as A ++ B, the total area, the four per-type
\* areas, totalCost and totalMaintenance of A ++ B are the sums of those
\* computed for A and for B.
C11_MetricsAdditive ==
    \A k \in 0..Len(zones) :
        LET A   == SubSeq(zones, 1, k)
            B   == SubSeq(zones, k + 1, Len(zones))
            mAB == MetricsOf(zones)
            mA  == MetricsOf(A)
            mB  == MetricsOf(B)
        IN  /\ mAB.totalArea = mA.totalArea + mB.totalArea
            /\ PerTypeAndCostAdditive(mAB, mA, mB)

Zero == Rat(0, 1)

\* C12: when clearZones() returns, the zone list is empty and the metrics
\* computed from it are all zero: totalArea, the per-type areas,
\* energyOutput, waterRetention, co2Reduction and totalCost.
C12_ClearZonesZeroesMetrics ==
    [][ClearZones =>
          LET m == calculateAdvancedMetrics(zones', roofWidth', roofLength',
                                            currentLocation')
          IN  /\ zones' = <<>>
              /\ m.totalArea = 0
              /\ m.solarArea = 0 /\ m.greenArea = 0
              /\ m.waterArea = 0 /\ m.socialArea = 0
              /\ m.energyOutput = Zero
              /\ m.waterRetention = Zero
              /\ m.co2Reduction = [solar |-> Zero, green |-> Zero]
              /\ m.totalCost = 0]_vars

(***************************************************************************)
(* The layout generators of script.js.  A call of Math.random() is an      *)
(* input, in thousandths (0..999).                                         *)
(***************************************************************************)
\* zoneWeights of generateLayout in thousandths, in the key order
\* solar, green, water, social, after the climate adjustment
zoneWeights(priority, climate) ==
    LET base == CASE priority = "energy"      -> <<650, 150, 150, 50>>
                  [] priority = "environment" -> <<250, 500, 200, 50>>
                  [] priority = "cost"        -> <<400, 300, 250, 50>>
                  [] OTHER                    -> <<400, 350, 150, 100>>
        solar == IF climate.solar > 1100 THEN (base[1] * 12) \div 10 ELSE base[1]
        water == IF climate.rainfall > 700 THEN (base[3] * 13) \div 10 ELSE base[3]
    IN  <<[type |-> "solar", weight |-> solar], [type |-> "green", weight |-> base[2]],
          [type |-> "water", weight |-> water], [type |-> "social", weight |-> base[4]]>>

RECURSIVE SumWeights(_, _)
SumWeights(weights, k) ==
    IF k = 0 THEN 0 ELSE SumWeights(weights, k - 1) + weights[k].weight

\* the loop of weightedRandomChoice from entry k on; `random` in millionths
RECURSIVE Roulette(_, _, _)
Roulette(weights, random, k) ==
    IF k > Len(weights) THEN weights[1].type
    ELSE LET rest == random - (weights[k].weight * 1000)
         IN  IF rest <= 0 THEN weights[k].type ELSE Roulette(weights, rest, k + 1)

\* weightedRandomChoice(weights) with Math.random() = r
weightedRandomChoice(weights, r) ==
    Roulette(weights, r * SumWeights(weights, Len(weights)), 1)

\* getIntelligentPosition with Math.random() = rx, then rz; the position in
\* decimetres, to the decimetre
getIntelligentPosition(zoneType, width, length, rx, rz) ==
    CASE zoneType = "solar" ->
            [x |-> TruncDiv((rx - 500) * width * 7, 1000),
             z |-> TruncDiv((2000 + (6 * rz)) * length, 2000)]
      [] zoneType = "green" ->
            [x |-> TruncDiv((rx - 500) * width * 6, 1000),
             z |-> TruncDiv((rz - 500) * length * 6, 1000)]
      [] zoneType = "water" ->
            [x |-> TruncDiv((rx - 500) * width * 9, 1000),
             z |-> TruncDiv((rz - 500) * length * 9, 1000)]
      [] zoneType = "social" ->
            [x |-> TruncDiv((rx - 500) * width * 4, 1000),
             z |-> (3 * length) + TruncDiv(rz * length * 2, 1000)]

totalZones_WithoutFive(width, length) == (width * length) \div 30

\* Math.floor((width * length) / 30) + 5
totalZones(width, length) == ((width * length) \div 30) + 5

\* the draws of the i-th zone under a repeating pattern of draws
DrawOf(pattern, i) == pattern[((i - 1) % Len(pattern)) + 1]

\* the zone list after the first i rounds of generateLayout's loop
LayoutZones(weights, pattern, i) ==
    [k \in 1..i |->
        LET draw     == DrawOf(pattern, k)
            zoneType == weightedRandomChoice(weights, draw.type)
            pos      == getIntelligentPosition(zoneType, roofWidth, roofLength,
                                               draw.x, draw.z)
        IN  ZoneRecord(pos.x, pos.z, zoneType, draw.size)]

\* generateLayout(priority): clearZones(), then totalZones calls of addZone
GenerateLayout(priority, pattern) ==
    /\ opt.pc = "idle"
    /\ zones' = LayoutZones(zoneWeights(priority, climateData[currentLocation]),
                            pattern, totalZones(roofWidth, roofLength))
    /\ display' = updateMetrics(zones', roofWidth, roofLength, currentLocation)
    /\ zoneCall' = [kind |-> "generateLayout", priority |-> priority,
                    pattern |-> pattern, outcome |-> "returned"]
    /\ UNCHANGED <<roofWidth, roofLength, currentLocation, currentZoneMode,
                   timers, opt, outsideZones>>

(***************************************************************************)
(* optimizeLayout, one action per step of its body.  The handler runs to   *)
(* completion: no other handler runs while opt.pc = "loop".                *)
(***************************************************************************)
MaxOptimizations == 1

iterations_Halved == 50 \div 2

\* const iterations = 50
iterations == 50

Floor(r) == r.n \div r.d

\* calculateLayoutScore over zone list zs, in thousandths, each of the four
\* terms to the thousandth
calculateLayoutScore(zs) ==
    LET metrics == calculateAdvancedMetrics(zs, roofWidth, roofLength, currentLocation)
        energyScore     == Floor(metrics.energyOutput)
        costScore       == 1000000000 \div (metrics.totalCost + 1)
        envScore        == Floor(RatMul(metrics.co2Reduction.solar, Rat(10, 1)))
                           + Floor(RatMul(metrics.co2Reduction.green, Rat(10, 1)))
        efficiencyScore == Floor(RatMul(metrics.efficiency, Rat(100000, 1)))
    IN  energyScore + costScore + envScore + efficiencyScore

\* zs.map(zone => ({...zone})): the copies share each zone's position
\* object, which `position |-> k` stands for (the position of zones[k])
ShallowCopies(zs) ==
    [k \in 1..Len(zs) |->
        [type |-> zs[k].type, area |-> zs[k].area, position |-> k,
         efficiency |-> zs[k].efficiency, cost |-> zs[k].cost,
         maintenance |-> zs[k].maintenance]]

\* the body of the zones.map callback: newZone.position is zone.position,
\* so the += moves the zone of the list as well
Nudged(zs, nudge) ==
    [k \in 1..Len(zs) |->
        [zs[k] EXCEPT !.position = [x |-> zs[k].position.x + nudge[1],
                                    z |-> zs[k].position.z + nudge[2]]]]

\* optimizeLayout() on an empty list: the alert, and return
OptimizeLayoutEmpty ==
    /\ opt.pc = "idle"
    /\ zones = <<>>
    /\ zoneCall' = [kind |-> "optimizeLayout", outcome |-> "returned",
                    alert |-> "Please generate a layout first!"]
    /\ UNCHANGED <<zones, roofWidth, roofLength, currentLocation, currentZoneMode,
                   display, timers, opt, outsideZones>>

\* optimizeLayout() up to the loop; `nudges` are the draws of the loop,
\* `given` records the positions the zones have at the call
OptimizeStart(nudges) ==
    /\ opt.pc = "idle"
    /\ zones # <<>>
    /\ opt.runs < MaxOptimizations
    /\ opt' = [pc |-> "loop", i |-> 0, nudges |-> nudges,
               bestScore |-> calculateLayoutScore(zones),
               bestLayout |-> ShallowCopies(zones), runs |-> opt.runs,
               given |-> [k \in 1..Len(zones) |-> zones[k].position]]
    /\ zoneCall' = None
    /\ UNCHANGED <<zones, roofWidth, roofLength, currentLocation, currentZoneMode,
                   display, timers, outsideZones>>

\* one round of the loop
OptimizeIterate ==
    /\ opt.pc = "loop"
    /\ opt.i < iterations
    /\ LET testZones == Nudged(zones, DrawOf(opt.nudges, opt.i + 1))
           score     == calculateLayoutScore(testZones)
       IN  /\ zones' = testZones
           /\ opt' = IF score > opt.bestScore
                     THEN [opt EXCEPT !.i = opt.i + 1, !.bestScore = score,
                                      !.bestLayout = ShallowCopies(testZones)]
                     ELSE [opt EXCEPT !.i = opt.i + 1]
    /\ UNCHANGED <<roofWidth, roofLength, currentLocation, currentZoneMode,
                   display, zoneCall, timers, outsideZones>>

\* the list after clearZones() and bestLayout.forEach(addZone) up to entry i
Reinstalled(bestLayout, sizes, i) ==
    [k \in 1..i |->
        LET position == zones[bestLayout[k].position].position
        IN  ZoneRecord(position.x, position.z, bestLayout[k].type, DrawOf(sizes, k))]

\* after the loop: clearZones(), the addZone calls, the alert
OptimizeFinish(sizes) ==
    /\ opt.pc = "loop"
    /\ ~(opt.i < iterations)
    /\ zones' = Reinstalled(opt.bestLayout, sizes, Len(opt.bestLayout))
    /\ display' = updateMetrics(zones', roofWidth, roofLength, currentLocation)
    /\ opt' = [pc |-> "idle", runs |-> opt.runs + 1]
    /\ zoneCall' = [kind |-> "optimizeLayout", outcome |-> "returned",
                    alert |-> "Layout optimized! Score improved to",
                    bestScore |-> opt.bestScore, scored |-> opt.i]
    /\ UNCHANGED <<roofWidth, roofLength, currentLocation, currentZoneMode,
                   timers, outsideZones>>

(***************************************************************************)
(* The prefabs of script.js.  Percentages are in hundredths.               *)
(***************************************************************************)
prefabConfigs ==
    [residential |->
        [width |-> 35, length |-> 25,
         zones |-> <<[type |-> "solar",  percentage |-> 40, priority |-> "south"],
                     [type |-> "green",  percentage |-> 35, priority |-> "north"],
                     [type |-> "water",  percentage |-> 15, priority |-> "edges"],
                     [type |-> "social", percentage |-> 10, priority |-> "accessible"]>>],
     commercial |->
        [width |-> 60, length |-> 40,
         zones |-> <<[type |-> "solar",  percentage |-> 60, priority |-> "center"],
                     [type |-> "green",  percentage |-> 20, priority |-> "perimeter"],
                     [type |-> "water",  percentage |-> 15, priority |-> "corners"],
                     [type |-> "social", percentage |-> 5,  priority |-> "accessible"]>>],
     industrial |->
        [width |-> 80, length |-> 50,
         zones |-> <<[type |-> "solar",  percentage |-> 70, priority |-> "south"],
                     [type |-> "water",  percentage |-> 20, priority |-> "low"],
                     [type |-> "green",  percentage |-> 8,  priority |-> "edges"],
                     [type |-> "social", percentage |-> 2,  priority |-> "entrance"]>>],
     school |->
        [width |-> 45, length |-> 35,
         zones |-> <<[type |-> "solar",  percentage |-> 35, priority |-> "south"],
                     [type |-> "green",  percentage |-> 40, priority |-> "center"],
                     [type |-> "social", percentage |-> 15, priority |-> "accessible"],
                     [type |-> "water",  percentage |-> 10, priority |-> "edges"]>>]]

\* getOptimalPosition(priority, width, length, index, total); draw.side,
\* draw.x and draw.z are its Math.random() values in thousandths, the
\* position is in decimetres, to the decimetre
getOptimalPosition(priority, width, length, draw) ==
    LET side  == (draw.side * 4) \div 1000
        along == (draw.x * 50) \div 1000            \* Math.random() * 5
        offset == 50 + ((draw.x * 50) \div 1000)    \* 5 + Math.random() * 5
        Spread(r, extent, tenths) == TruncDiv((r - 500) * extent * tenths, 1000)
    IN  CASE priority = "south" ->
               [x |-> Spread(draw.x, width, 8), z |-> (draw.z * length * 4) \div 1000]
          [] priority = "north" ->
               [x |-> Spread(draw.x, width, 8), z |-> -((draw.z * length * 4) \div 1000)]
          [] priority = "center" ->
               [x |-> Spread(draw.x, width, 6), z |-> Spread(draw.z, length, 6)]
          [] priority = "perimeter" ->
               CASE side = 0 -> [x |-> (-5 * width) + along,
                                 z |-> Spread(draw.z, length, 10)]
                 [] side = 1 -> [x |-> (5 * width) - along,
                                 z |-> Spread(draw.z, length, 10)]
                 [] side = 2 -> [x |-> Spread(draw.x, width, 10),
                                 z |-> (-5 * length) + ((draw.z * 50) \div 1000)]
                 [] OTHER    -> [x |-> Spread(draw.x, width, 10),
                                 z |-> (5 * length) - ((draw.z * 50) \div 1000)]
          [] priority = "corners" ->
               CASE side = 0 -> [x |-> (-5 * width) + offset, z |-> (5 * length) - offset]
                 [] side = 1 -> [x |-> (5 * width) - offset,  z |-> (5 * length) - offset]
                 [] side = 2 -> [x |-> (5 * width) - offset,  z |-> (-5 * length) + offset]
                 [] OTHER    -> [x |-> (-5 * width) + offset, z |-> (-5 * length) + offset]
          [] priority = "accessible" ->
               [x |-> Spread(draw.x, width, 4),
                z |-> (5 * length) - 100 - ((draw.z * 100) \div 1000)]
          [] OTHER ->
               [x |-> Spread(draw.x, width, 8), z |-> Spread(draw.z, length, 8)]

\* Math.floor((width * length * zoneConfig.percentage) / 25)
numZones(config, zoneConfig) ==
    (config.width * config.length * zoneConfig.percentage) \div 2500

\* the number of zones the first j entries of config.zones ask for
RECURSIVE ZonesBefore(_, _)
ZonesBefore(config, j) ==
    IF j = 0 THEN 0
    ELSE ZonesBefore(config, j - 1) + numZones(config, config.zones[j])

\* the entry of config.zones whose inner loop makes the k-th addZone call
RECURSIVE EntryOf(_, _, _)
EntryOf(config, k, j) ==
    IF k <= ZonesBefore(config, j) THEN j ELSE EntryOf(config, k, j + 1)

\* generatePrefabZones(config) on list zs: the forEach over config.zones and
\* its inner loop, one addZone call after the other
generatePrefabZones(zs, config, pattern) ==
    zs \o [k \in 1..ZonesBefore(config, Len(config.zones)) |->
              LET zoneConfig == config.zones[EntryOf(config, k, 1)]
                  draw == DrawOf(pattern, k)
                  pos  == getOptimalPosition(zoneConfig.priority, config.width,
                                             config.length, draw)
              IN  ZoneRecord(pos.x, pos.z, zoneConfig.type, draw.size)]

\* loadPrefab(type): the inputs, createBuilding(), clearZones(), setTimeout
LoadPrefab(type) ==
    /\ opt.pc = "idle"
    /\ timers = <<>>    \* one pending timeout at a time
    /\ IF type \in DOMAIN prefabConfigs
       THEN LET config == prefabConfigs[type]
            IN  /\ roofWidth' = config.width
                /\ roofLength' = config.length
                /\ zones' = <<>>
                /\ display' = updateMetrics(zones', roofWidth', roofLength',
                                            currentLocation)
                /\ timers' = Append(timers, type)
       ELSE UNCHANGED <<zones, roofWidth, roofLength, display, timers>>
    /\ zoneCall' = [kind |-> "loadPrefab", type |-> type, outcome |-> "returned"]
    /\ UNCHANGED <<currentLocation, currentZoneMode, opt, outsideZones>>

\* the timeout of loadPrefab fires: generatePrefabZones(config)
PrefabTimeout(pattern) ==
    /\ opt.pc = "idle"
    /\ timers # <<>>
    /\ LET config == prefabConfigs[Head(timers)]
       IN  zones' = generatePrefabZones(zones, config, pattern)
    /\ display' = updateMetrics(zones', roofWidth, roofLength, currentLocation)
    /\ timers' = Tail(timers)
    /\ zoneCall' = [kind |-> "generatePrefabZones", type |-> Head(timers),
                    outcome |-> "returned"]
    /\ UNCHANGED <<roofWidth, roofLength, currentLocation, currentZoneMode,
                   opt, outsideZones>>

(***************************************************************************)
(* SpecLayout: the zone engine with its layout generators                  *)
(***************************************************************************)
\* the #priority values generateLayout is called with
PrioritySet == {"balanced", "energy"}

\* repeating draws of generateLayout's rounds: the roulette draw, the two
\* position draws (thousandths) and addZone's size (metres)
LayoutPatterns ==
    {<<[type |-> 0,   x |-> 500, z |-> 0,   size |-> 3],
       [type |-> 999, x |-> 500, z |-> 500, size |-> 4]>>,
     <<[type |-> 400, x |-> 0,   z |-> 0,   size |-> 4],
       [type |-> 401, x |-> 999, z |-> 0,   size |-> 3],
       [type |-> 760, x |-> 250, z |-> 0,   size |-> 4],
       [type |-> 999, x |-> 750, z |-> 250, size |-> 3]>>}

\* repeating draws of generatePrefabZones' rounds
PrefabPatterns ==
    {<<[side |-> 0,   x |-> 500, z |-> 500, size |-> 3]>>,
     <<[side |-> 300, x |-> 0,   z |-> 250, size |-> 4],
       [side |-> 999, x |-> 999, z |-> 0,   size |-> 3]>>}

\* "castle" is a type prefabConfigs has no entry for
PrefabTypeSet == {"residential", "castle"}

\* repeating draws of optimizeLayout's rounds, (Math.random() - 0.5) * 4 for
\* x and for z, in decimetres, the same for every zone of a round
NudgePatterns == {<<<<10, -5>>, <<-10, 5>>>>, <<<<1, 1>>>>}

\* repeating draws of the sizes of the zones optimizeLayout adds back
SizePatterns == {<<4, 3>>}

\* clicks on the roof: the point hit, decimetres (z before the roofY shift
\* of onMouseClick), and the size addZone draws
LayoutClicks == {[px |-> 0, z |-> 0, size |-> 3]}

NextLayout ==
    \/ \E priority \in PrioritySet, pattern \in LayoutPatterns :
          GenerateLayout(priority, pattern)
    \/ OptimizeLayoutEmpty
    \/ \E nudges \in NudgePatterns : OptimizeStart(nudges)
    \/ OptimizeIterate
    \/ \E sizes \in SizePatterns : OptimizeFinish(sizes)
    \/ \E type \in PrefabTypeSet : LoadPrefab(type)
    \/ \E pattern \in PrefabPatterns : PrefabTimeout(pattern)
    \/ opt.pc = "idle" /\ ClearZones
    \/ opt.pc = "idle" /\ \E click \in LayoutClicks :
                             OnMouseClick(click.px, click.z + roofWidth, click.size)

\* the state init() leaves, with the sliders at their initial values
InitLayout ==
    /\ InitZones
    /\ roofWidth = 20
    /\ roofLength = 15

SpecLayout == InitLayout /\ [][NextLayout]_vars

(***************************************************************************)
(* The cost estimation behind IndustrialRoofDesigner.  Areas are square    *)
(* feet and prices dollars, both exact fractions.                          *)
(***************************************************************************)
\* the price of each entry of industrialMaterials
industrialMaterials ==
    [EPDM          |-> [price |-> Rat(850, 100)],
     TPO           |-> [price |-> Rat(675, 100)],
     MetalPanel    |-> [price |-> Rat(1200, 100)],
     Bitumen       |-> [price |-> Rat(525, 100)],
     HVACUnit      |-> [price |-> Rat(0, 1)],
     SolarPanel    |-> [price |-> Rat(350, 100)],
     SkylightGlass |-> [price |-> Rat(0, 1)],
     SkylightFrame |-> [price |-> Rat(0, 1)]]

baseAreas ==
    [hvac |-> Rat(4, 1), skylight |-> Rat(6, 1), solar |-> Rat(2, 1),
     vent |-> Rat(1, 2), antenna |-> Rat(1, 4), water_tank |-> Rat(7, 1)]

\* getComponentArea(component)
getComponentArea(component) ==
    LET baseArea == IF component.type \in DOMAIN baseAreas
                    THEN baseAreas[component.type] ELSE Rat(1, 1)
        scale == component.scale[1] * component.scale[3]
    IN  RatMul(baseArea, Rat(scale, 1))

\* calculateComponentCost(component): the fields the totals are made of
calculateComponentCost(component) ==
    LET baseArea == getComponentArea(component)
    IN  IF component.type \notin DOMAIN industrialMaterials
        THEN [id |-> component.id, category |-> "Unknown", quantity |-> Rat(1, 1),
              unit |-> "each", unitCost |-> Rat(0, 1), totalCost |-> Rat(0, 1)]
        ELSE LET unitCost == industrialMaterials[component.type].price
             IN  [id |-> component.id, category |-> "known", quantity |-> baseArea,
                  unit |-> "sq ft", unitCost |-> unitCost,
                  totalCost |-> RatMul(unitCost, baseArea)]

\* generateBillOfMaterials(components), without currency and lastUpdated
generateBillOfMaterials(cs) ==
    LET items == [k \in 1..Len(cs) |-> calculateComponentCost(cs[k])]
        materialCost == RatSum([k \in 1..Len(cs) |-> items[k].totalCost], 1, Len(cs))
        laborCost == RatMul(materialCost, Rat(4, 10))
        subtotal  == RatAdd(materialCost, laborCost)
        overhead  == RatMul(subtotal, Rat(1, 10))
    IN  [items |-> items, subtotal |-> subtotal, laborCost |-> laborCost,
         overhead |-> overhead, totalCost |-> RatAdd(subtotal, overhead)]

\* factor * 10 of calculatePerformanceMetrics, per component type
efficiencyFactors ==
    [solar |-> Rat(3, 1), skylight |-> Rat(1, 1), hvac |-> Rat(-2, 1),
     vent |-> Rat(-1, 2), antenna |-> Rat(-1, 10), water_tank |-> Rat(0, 1)]

RatMax(a, b) == IF RatLess(a, b) THEN b ELSE a

\* calculatePerformanceMetrics(components)
calculatePerformanceMetrics(cs) ==
    LET n == Len(cs)
        totalArea == RatSum([k \in 1..n |-> getComponentArea(cs[k])], 1, n)
        solarArea == RatSum([k \in 1..n |-> IF cs[k].type = "solar"
                                            THEN getComponentArea(cs[k])
                                            ELSE Rat(0, 1)], 1, n)
        factors   == RatSum([k \in 1..n |-> IF cs[k].type \in DOMAIN efficiencyFactors
                                            THEN efficiencyFactors[cs[k].type]
                                            ELSE Rat(0, 1)], 1, n)
        maintenanceCost ==
            RatSum([k \in 1..n |->
                       IF cs[k].type \in DOMAIN industrialMaterials
                       THEN RatMul(RatMul(industrialMaterials[cs[k].type].price,
                                          getComponentArea(cs[k])), Rat(5, 100))
                       ELSE Rat(0, 1)], 1, n)
    IN  [totalArea |-> totalArea,
         solarPotential |-> RatMul(solarArea, Rat(150, 1)),
         energyEfficiency |-> RatMax(Rat(0, 1), RatMin(Rat(100, 1),
                                                      RatAdd(Rat(50, 1), factors))),
         maintenanceCost |-> maintenanceCost,
         lifecycleCost |-> RatAdd(RatMul(totalArea, Rat(15, 1)),
                                  RatMul(maintenanceCost, Rat(20, 1))),
         carbonFootprint |-> RatMul(totalArea, Rat(1, 10))]

(***************************************************************************)
(* IndustrialRoofDesigner: a handler queues its setComponents updater and  *)
(* returns; React applies the updater in the next render, whose body       *)
(* computes bom and metrics.  React renders before it dispatches the next  *)
(* event.  The history manager is left out.                                *)
(***************************************************************************)
MaxComponents == 1

MaxClock == 2

\* the body of the function component, for the state `cs`
RenderBody(cs) ==
    [bom |-> generateBillOfMaterials(cs), metrics |-> calculatePerformanceMetrics(cs)]

\* what a queued updater makes of the list `prev`
ApplyUpdater(updater, prev) ==
    CASE updater.op = "add" -> Append(prev, updater.component)
      [] updater.op = "delete" -> SelectSeq(prev, LAMBDA comp : comp.id # updater.id)
      [] updater.op = "move" ->
            [k \in 1..Len(prev) |-> IF prev[k].id = updater.id
                                    THEN [prev[k] EXCEPT !.position = updater.position]
                                    ELSE prev[k]]
      [] updater.op = "select" ->
            [k \in 1..Len(prev) |-> [prev[k] EXCEPT !.selected = (prev[k].id = updater.id)]]
      [] updater.op = "rotate" ->
            [k \in 1..Len(prev) |-> IF prev[k].id = updater.id
                                    THEN [prev[k] EXCEPT !.rotation = updater.rotation]
                                    ELSE prev[k]]
      [] updater.op = "scale" ->
            [k \in 1..Len(prev) |-> IF prev[k].id = updater.id
                                    THEN [prev[k] EXCEPT !.scale = updater.scale]
                                    ELSE prev[k]]

\* a handler returns with its updater queued
Queue(updater) ==
    /\ published # None
    /\ pending = None
    /\ pending' = updater
    /\ UNCHANGED <<components, published, clock, exported, outsideDesigner>>

\* the id is `${type}_${Date.now()}`
handleAddComponent(type, position) ==
    /\ Queue([op |-> "add",
              component |-> [id |-> <<type, clock>>, type |-> type,
                             position |-> position, rotation |-> <<0, 0, 0>>,
                             scale |-> <<1, 1, 1>>, selected |-> FALSE]])
    /\ UNCHANGED selectedComponent

\* the toolbar adds a component while the list has room for one
AddComponent(type, position) ==
    Len(components) < MaxComponents /\ handleAddComponent(type, position)

handleSelectComponent(id) ==
    /\ selectedComponent' = <<id>>
    /\ Queue([op |-> "select", id |-> id])

\* selectedComponent is the one of the latest render
handleDeleteComponent(id) ==
    /\ Queue([op |-> "delete", id |-> id])
    /\ selectedComponent' = IF selectedComponent = <<id>> THEN <<>> ELSE selectedComponent

handleMoveComponent(id, position) ==
    /\ Queue([op |-> "move", id |-> id, position |-> position])
    /\ UNCHANGED selectedComponent

handleRotateComponent(id, rotation) ==
    /\ Queue([op |-> "rotate", id |-> id, rotation |-> rotation])
    /\ UNCHANGED selectedComponent

handleScaleComponent(id, scale) ==
    /\ Queue([op |-> "scale", id |-> id, scale |-> scale])
    /\ UNCHANGED selectedComponent

\* duplicateComponent(component) of useCopyPaste, with onAddComponent the
\* designer's handleAddComponent
duplicateComponent(component) ==
    handleAddComponent(component.type,
                       <<component.position[1] + 2, component.position[2],
                         component.position[3] + 2>>)

\* React re-renders: the queued updater is applied and the body runs
Render ==
    /\ pending # None
    /\ components' = ApplyUpdater(pending, components)
    /\ pending' = None
    /\ published' = RenderBody(components')
    /\ UNCHANGED <<clock, exported, selectedComponent, outsideDesigner>>

\* a millisecond passes
Tick ==
    /\ published # None
    /\ clock < MaxClock
    /\ clock' = clock + 1
    /\ UNCHANGED <<components, pending, published, exported, selectedComponent,
                   outsideDesigner>>

\* the first render of the mounted component
InitDesigner ==
    /\ components = <<>>
    /\ pending = None
    /\ published = RenderBody(<<>>)
    /\ clock = 1
    /\ exported = None
    /\ selectedComponent = <<>>
    /\ RngIdle
    /\ RoofIdle
    /\ ZoneIdle
    /\ SearchIdle
    /\ LaterIdle

ComponentTypeSet == {"solar", "hvac", "antenna"}

PositionSet == {<<0, 0, 0>>, <<1, 0, 2>>}

RotationSet == {<<0, 0, 0>>, <<0, 90, 0>>}

ScaleSet == {<<1, 1, 1>>, <<2, 1, 1>>}

\* the ids the panels can pass: those of the rendered components
RenderedIds == {components[k].id : k \in 1..Len(components)}

NextDesigner ==
    \/ \E type \in ComponentTypeSet, position \in PositionSet :
          AddComponent(type, position)
    \/ \E id \in RenderedIds : handleDeleteComponent(id)
    \/ \E id \in RenderedIds, position \in PositionSet : handleMoveComponent(id, position)
    \/ \E id \in RenderedIds, rotation \in RotationSet : handleRotateComponent(id, rotation)
    \/ \E id \in RenderedIds, scale \in ScaleSet : handleScaleComponent(id, scale)
    \/ Render
    \/ Tick

SpecDesigner == InitDesigner /\ [][NextDesigner]_vars

(***************************************************************************)
(* SpecApps: the two pages of the repository, the script.js page and the   *)
(* React designer; a behaviour is a session of one of them                 *)
(***************************************************************************)
InitApps == InitLayout \/ InitDesigner

NextApps ==
    \/ published = None /\ NextLayout
    \/ NextDesigner

SpecApps == InitApps /\ [][NextApps]_vars

\* the KPI fields of the script.js page are those of the zone list
ZoneSnapshotFresh ==
    display = updateMetrics(zones, roofWidth, roofLength, currentLocation)

\* bom and metrics of the designer are those of its component list
DesignerSnapshotFresh ==
    published # None => published = RenderBody(components)

MaterialOf ==
    [solar |-> "SolarPanel", hvac |-> "HVACUnit", skylight |-> "SkylightGlass"]

Dollars(cents) == Rat(cents, 100)

\* C14: for a list of components of known types, generateBillOfMaterials
\* prices each item as unitPrice(type) x baseFootprint(type) x scaleX x
\* scaleZ with the unit price of the materials table, laborCost is 0.4 x
\* materialCost, overhead is 0.1 x (materialCost + laborCost) and totalCost
\* is their sum; a single solar component with scale [2,1,1] at unit price
\* 3.50 gives materialCost 14, laborCost 5.60, overhead 1.96 and totalCost
\* 21.56.
C14_BillOfMaterialsPricing ==
    published # None =>
        LET bom == generateBillOfMaterials(components)
            n   == Len(components)
            materialCost == RatSum([k \in 1..n |-> bom.items[k].totalCost], 1, n)
        IN  /\ \A k \in 1..n :
                  components[k].type \in DOMAIN MaterialOf =>
                      bom.items[k].totalCost =
                          RatMul(industrialMaterials[MaterialOf[components[k].type]].price,
                                 RatMul(baseAreas[components[k].type],
                                        Rat(components[k].scale[1]
                                            * components[k].scale[3], 1)))
            /\ bom.laborCost = RatMul(materialCost, Rat(4, 10))
            /\ bom.overhead = RatMul(RatAdd(materialCost, bom.laborCost), Rat(1, 10))
            /\ bom.totalCost = RatAdd(RatAdd(materialCost, bom.laborCost), bom.overhead)
            /\ (n = 1 /\ components[1].type = "solar"
                      /\ components[1].scale = <<2, 1, 1>>) =>
                  /\ materialCost = Dollars(1400)
                  /\ bom.laborCost = Dollars(560)
                  /\ bom.overhead = Dollars(196)
                  /\ bom.totalCost = Dollars(2156)

\* the part of C14 that does not depend on the prices
BillOfMaterialsMarkups ==
    published # None =>
        LET bom == published.bom
            n   == Len(components)
            materialCost == RatSum([k \in 1..n |-> bom.items[k].totalCost], 1, n)
        IN  /\ bom.laborCost = RatMul(materialCost, Rat(4, 10))
            /\ bom.overhead = RatMul(RatAdd(materialCost, bom.laborCost), Rat(1, 10))
            /\ bom.totalCost = RatAdd(RatAdd(materialCost, bom.laborCost), bom.overhead)

\* what the program publishes for a single solar component of scale [2,1,1]
SolarBillIsZero ==
    (published # None /\ Len(components) = 1 /\ components[1].type = "solar"
        /\ components[1].scale = <<2, 1, 1>>) =>
        /\ published.bom.items[1].category = "Unknown"
        /\ published.bom.totalCost = Rat(0, 1)

ZoneTypes == {"solar", "green", "water", "social"}

\* the position of `type` in the key order of the weights
KeyIndex(weights, type) == CHOOSE k \in 1..Len(weights) : weights[k].type = type

\* draw r (millionths) falls into the cumulative-weight interval of `type`:
\* above the weights before it and not above those up to it (a draw of 0
\* belongs to the first type)
InCumulativeInterval(weights, r, type) ==
    LET k == KeyIndex(weights, type)
    IN  /\ r <= SumWeights(weights, k) * 1000
        /\ \/ r > SumWeights(weights, k - 1) * 1000
           \/ (k = 1 /\ r = 0)

GenerateLayoutResult(zs, call, width, length, location) ==
    LET weights == zoneWeights(call.priority, climateData[location])
        total   == SumWeights(weights, Len(weights))
    IN  /\ Len(zs) = ((width * length) \div 30) + 5
        /\ \A i \in 1..Len(zs) :
              /\ zs[i].type \in ZoneTypes
              /\ InCumulativeInterval(weights, DrawOf(call.pattern, i).type * total,
                                      zs[i].type)

\* C15: when generateLayout(priority) returns, whatever zones existed
\* before the call, the zone list has exactly floor(width * length / 30) + 5
\* zones, each of a type in {solar, green, water, social}, the type whose
\* cumulative-weight interval contains the zone's draw r = random * total
\* weight.
C15_GenerateLayoutCountAndTypes ==
    [][(\E priority \in PrioritySet, pattern \in LayoutPatterns :
            GenerateLayout(priority, pattern))
        => GenerateLayoutResult(zones', zoneCall', roofWidth', roofLength',
                                currentLocation')]_vars

\* a layout of the climate-adjusted weights on the roof of a prefab, with
\* green, water and social zones
C15_Witness ==
    /\ zoneCall.kind = "generateLayout"
    /\ currentLocation = "oslo"
    /\ Len(zones) = 34
    /\ \A type \in {"green", "water", "social"} :
          \E i \in 1..Len(zones) : zones[i].type = type

(***************************************************************************)
(* SpecOptimize: optimizeLayout on lists placed by clicks                  *)
(***************************************************************************)
NextOptimize ==
    \/ OptimizeLayoutEmpty
    \/ \E nudges \in NudgePatterns : OptimizeStart(nudges)
    \/ OptimizeIterate
    \/ \E sizes \in SizePatterns : OptimizeFinish(sizes)
    \/ opt.pc = "idle" /\ ClearZones
    \/ opt.pc = "idle" /\ \E click \in LayoutClicks :
                             OnMouseClick(click.px, click.z + roofWidth, click.size)

SpecOptimize == InitLayout /\ [][NextOptimize]_vars

\* optimizeLayout is one synchronous function: once entered, its loop and
\* its tail run to the return
SpecOptimizeFair ==
    /\ SpecOptimize
    /\ WF_vars(OptimizeIterate)
    /\ WF_vars(\E sizes \in SizePatterns : OptimizeFinish(sizes))

OptimizeLayoutReturns == (opt.pc = "loop") ~> (opt.pc = "idle")

FiftyCandidatesScored ==
    [][(\E sizes \in SizePatterns : OptimizeFinish(sizes))
        => (opt.i = 50 /\ zoneCall'.scored = 50)]_vars

EmptyListUntouched ==
    [][OptimizeLayoutEmpty => UNCHANGED <<zones, display, roofWidth, roofLength,
                                          currentLocation, currentZoneMode,
                                          timers, opt>>]_vars

\* C16: optimizeLayout called on a non-empty zone list always returns, and
\* when it does it has scored exactly 50 candidate layouts, neither more
\* nor fewer (no early exit); called on an empty list it returns without
\* changing anything.
C16_OptimizeLayoutTerminates ==
    /\ OptimizeLayoutReturns
    /\ FiftyCandidatesScored
    /\ EmptyListUntouched

C16_Witness ==
    /\ zoneCall.kind = "optimizeLayout"
    /\ "scored" \in DOMAIN zoneCall
    /\ zoneCall.scored = 50
    /\ zones # <<>>

(***************************************************************************)
(* C17: optimizeLayout replaces its best layout only as a whole and only   *)
(* for a candidate whose score is strictly greater than the best score so  *)
(* far, and the score it reports is the score of the layout it leaves in   *)
(* the zone list: calculateLayoutScore() right after the call returns      *)
(* gives the reported best score.                                          *)
(***************************************************************************)
AcceptsOnlyStrictlyBetter ==
    [][OptimizeIterate =>
          \/ opt'.bestScore = opt.bestScore /\ opt'.bestLayout = opt.bestLayout
          \/ /\ calculateLayoutScore(zones') > opt.bestScore
             /\ opt'.bestScore = calculateLayoutScore(zones')
             /\ opt'.bestLayout = ShallowCopies(zones')]_vars

ReportedScoreIsInstalledScore ==
    [][(\E sizes \in SizePatterns : OptimizeFinish(sizes)) =>
          zoneCall'.bestScore = calculateLayoutScore(zones')]_vars

C17_ReportedScoreIsInstalledScore ==
    AcceptsOnlyStrictlyBetter /\ ReportedScoreIsInstalledScore

(***************************************************************************)
(* C18: a placed zone is only ever moved or removed: optimizeLayout leaves *)
(* the number of zones unchanged and leaves the type, the footprint area,  *)
(* the cost and the maintenance fraction of every zone unchanged; at most  *)
(* the position changes.                                                   *)
(***************************************************************************)
SameButPosition(before, after) ==
    /\ Len(after) = Len(before)
    /\ \A k \in 1..Len(before) :
          /\ after[k].type = before[k].type
          /\ after[k].area = before[k].area
          /\ after[k].cost = before[k].cost
          /\ after[k].maintenance = before[k].maintenance

C18_OptimizeLayoutOnlyMoves ==
    [][/\ (\E nudges \in NudgePatterns : OptimizeStart(nudges)) \/ OptimizeIterate
          => SameButPosition(zones, zones')
       /\ (\E sizes \in SizePatterns : OptimizeFinish(sizes))
          => SameButPosition(zones, zones')]_vars

\* what the rebuilt list does keep: the number of zones, and each zone's
\* type and maintenance fraction
OptimizeLayoutKeepsCountAndTypes ==
    [][(\E sizes \in SizePatterns : OptimizeFinish(sizes)) =>
          /\ Len(zones') = Len(zones)
          /\ \A k \in 1..Len(zones) :
                /\ zones'[k].type = zones[k].type
                /\ zones'[k].maintenance = zones[k].maintenance]_vars

(***************************************************************************)
(* C19: zone-list mutations never interleave with other actions: once      *)
(* loadPrefab(T) and its zone generation have run, the zone list holds,    *)
(* for each zone type of prefab T, exactly                                 *)
(* floor(width * depth * percentage / 25) zones and no other zones,        *)
(* whatever other user actions came between the two.                       *)
(***************************************************************************)
ZonesOfType(zs, type) == Cardinality({k \in 1..Len(zs) : zs[k].type = type})

PrefabCountsExact(zs, config) ==
    /\ \A j \in 1..Len(config.zones) :
          ZonesOfType(zs, config.zones[j].type) = numZones(config, config.zones[j])
    /\ Len(zs) = ZonesBefore(config, Len(config.zones))

C19_PrefabZonesExact ==
    zoneCall.kind = "generatePrefabZones"
        => PrefabCountsExact(zones, prefabConfigs[zoneCall.type])

\* the same, for a load whose timeout finds the list as loadPrefab left it
PrefabCountsExactOnEmptyList ==
    [][(zones = <<>> /\ \E pattern \in PrefabPatterns : PrefabTimeout(pattern))
          => PrefabCountsExact(zones', prefabConfigs[zoneCall'.type])]_vars

(***************************************************************************)
(* The building lookup of InteractiveRoofGenerator.tsx: searchBuildings,   *)
(* an async function, from its call to the settling of the promise it      *)
(* returns.  `search` is the call in progress.  Latitudes and longitudes   *)
(* are in thousandths of a degree.  An evaluation that can throw gives     *)
(* Thrown(error) or Returned(value).  A coordinate list is the list of its *)
(* corners, each given by the angle in degrees that calculateAngle finds   *)
(* at it; a missing geometry is the empty list.                            *)
(***************************************************************************)
MaxElements == 2

Thrown(error) == [threw |-> TRUE, error |-> error]

Returned(value) == [threw |-> FALSE, value |-> value]

\* the list of getMockBuildingData(), by the ids of its buildings
getMockBuildingData == <<[prefix |-> "mock-building-", id |-> 1]>>

\* geocodeAddress(address), from the settling of its fetch: `reply` is the
\* rejection, or the response with the outcome of response.json()
geocodeAddress(reply) ==
    LET body ==
            IF reply.kind = "rejected" THEN Thrown("TypeError: Failed to fetch")
            ELSE IF ~reply.ok THEN Thrown("Geocoding error")
            ELSE IF reply.body.kind = "invalid" THEN Thrown("SyntaxError")
            ELSE IF reply.body.kind = "null" THEN Thrown("TypeError: data is null")
            ELSE IF Len(reply.body.items) > 0
                 THEN Returned([kind |-> "point", lat |-> reply.body.items[1].lat,
                                lon |-> reply.body.items[1].lon])
                 ELSE Returned(None)
    IN  IF body.threw THEN None ELSE body.value

\* the condition of the if in the loop of parseBuildingData
IsFootprint(element) == element.type = "way" /\ Len(element.geometry) >= 3

\* isRoughlyRectangular(coordinates)
isRoughlyRectangular(coordinates) ==
    LET tolerance == 15
    IN  /\ Len(coordinates) = 4
        /\ \A i \in 1..Len(coordinates) : Abs(coordinates[i] - 90) < tolerance

\* determineBuildingShape(coordinates): in `const isLShaped =
\* isLShaped(coordinates)` the name is the constant being declared, which
\* cannot be read before its initialisation, so the statement throws and
\* the checks after it are never reached
determineBuildingShape(coordinates) ==
    IF Len(coordinates) < 3 THEN Returned("irregular")
    ELSE IF isRoughlyRectangular(coordinates) THEN Returned("rectangular")
    ELSE Thrown("ReferenceError: Cannot access 'isLShaped' before initialization")

\* one pass of the loop of parseBuildingData: the shape is determined
\* first, then the tags are read without a check
ParsedElement(element) ==
    IF ~IsFootprint(element) THEN Returned(<<>>)
    ELSE LET shape == determineBuildingShape(element.geometry)
         IN  IF shape.threw THEN shape
             ELSE IF ~element.tags THEN Thrown("TypeError: tags is undefined")
             ELSE Returned(<<[prefix |-> "building-", id |-> element.id,
                              shape |-> shape.value]>>)

\* parseBuildingData(data): the first element that throws ends the loop
parseBuildingData(data) ==
    IF ~data.hasElements THEN Thrown("TypeError: data.elements is not iterable")
    ELSE LET throwing == {k \in 1..Len(data.elements) : ParsedElement(data.elements[k]).threw}
         IN  IF throwing # {}
             THEN ParsedElement(data.elements[CHOOSE k \in throwing :
                                                 \A j \in throwing : k <= j])
             ELSE LET footprints == SelectSeq(data.elements, IsFootprint)
                  IN  Returned([k \in 1..Len(footprints) |->
                                   ParsedElement(footprints[k]).value[1]])

\* the promise of call `call` settles; `logged` is what console.error got
Settled(call, outcome, value, logged) ==
    [kind |-> "settled", outcome |-> outcome, value |-> value, logged |-> logged,
     query |-> call.query, searchBbox |-> call.searchBbox]

searchBuildingsCatch_Rethrow(call, error) == Settled(call, "rejected", error, <<error>>)

\* the catch block of searchBuildings: console.error, the mock data
searchBuildingsCatch(call, error) ==
    Settled(call, "resolved", getMockBuildingData, <<error>>)

\* searchBuildings(query, bbox) up to its first await
SearchBuildings(query, bbox) ==
    /\ search.kind \in {"none", "settled"}
    /\ search' = [kind |-> "pending", query |-> query, searchBbox |-> bbox,
                  awaiting |-> IF bbox = None THEN "geocodeAddress" ELSE "fetch"]
    /\ UNCHANGED outsideSearch

\* the await of geocodeAddress(query) resumes
GeocodeSettles(reply) ==
    /\ search.kind = "pending"
    /\ search.awaiting = "geocodeAddress"
    /\ LET geocoded == geocodeAddress(reply)
           buffer   == 1
       IN  search' =
               IF geocoded # None
               THEN [search EXCEPT !.awaiting = "fetch",
                                   !.searchBbox = [south |-> geocoded.lat - buffer,
                                                   west  |-> geocoded.lon - buffer,
                                                   north |-> geocoded.lat + buffer,
                                                   east  |-> geocoded.lon + buffer]]
               ELSE searchBuildingsCatch(search, "Could not determine search area")
    /\ UNCHANGED outsideSearch

\* `Overpass API error: ${response.status}`
OverpassError == [status \in {429, 504} |->
                     IF status = 429 THEN "Overpass API error: 429"
                                     ELSE "Overpass API error: 504"]

\* the Overpass fetch settles: the status check, response.json(),
\* parseBuildingData
OverpassSettles(reply) ==
    /\ search.kind = "pending"
    /\ search.awaiting = "fetch"
    /\ LET body ==
               IF reply.kind = "rejected" THEN Thrown("TypeError: Failed to fetch")
               ELSE IF ~reply.ok THEN Thrown(OverpassError[reply.status])
               ELSE IF reply.body.kind = "invalid" THEN Thrown("SyntaxError")
               ELSE parseBuildingData(reply.body)
       IN  search' = IF body.threw
                     THEN searchBuildingsCatch(search, body.error)
                     ELSE Settled(search, "resolved", body.value, <<>>)
    /\ UNCHANGED outsideSearch

QuerySet == {"Industrivej 1", "nowhere", ""}

BboxSet ==
    {None,
     [south |-> 55675, west |-> 12567, north |-> 55677, east |-> 12569],
     [south |-> 59900, west |-> 10700, north |-> 59950, east |-> 10800]}

GeocodeReplies ==
    {[kind |-> "rejected"],
     [kind |-> "response", ok |-> FALSE, body |-> [kind |-> "invalid"]],
     [kind |-> "response", ok |-> TRUE, body |-> [kind |-> "invalid"]],
     [kind |-> "response", ok |-> TRUE, body |-> [kind |-> "null"]],
     [kind |-> "response", ok |-> TRUE, body |-> [kind |-> "array", items |-> <<>>]],
     [kind |-> "response", ok |-> TRUE,
      body |-> [kind |-> "array", items |-> <<[lat |-> 55676, lon |-> 12568]>>]],
     [kind |-> "response", ok |-> TRUE,
      body |-> [kind |-> "array", items |-> <<[lat |-> 0, lon |-> 0],
                                             [lat |-> 55676, lon |-> 12568]>>]]}

\* a four-corner hall, a triangle, a line, a relation without geometry, a
\* hall without tags, an L-shaped hall of six corners, a hall whose way is
\* a closed ring that repeats its first node, and a skewed four-corner hall
ElementSet ==
    {[type |-> "way", id |-> 1, geometry |-> <<88, 92, 88, 92>>, tags |-> TRUE],
     [type |-> "way", id |-> 2, geometry |-> <<60, 60, 60>>, tags |-> TRUE],
     [type |-> "way", id |-> 3, geometry |-> <<0, 0>>, tags |-> TRUE],
     [type |-> "relation", id |-> 4, geometry |-> <<>>, tags |-> TRUE],
     [type |-> "way", id |-> 5, geometry |-> <<90, 90, 90, 90>>, tags |-> FALSE],
     [type |-> "way", id |-> 6, geometry |-> <<90, 90, 90, 90, 90, 90>>, tags |-> TRUE],
     [type |-> "way", id |-> 7, geometry |-> <<0, 90, 90, 90, 0>>, tags |-> TRUE],
     [type |-> "way", id |-> 8, geometry |-> <<80, 100, 80, 100>>, tags |-> TRUE]}

ElementLists == UNION {[1..n -> ElementSet] : n \in 0..MaxElements}

OverpassReplies ==
    {[kind |-> "rejected"],
     [kind |-> "response", ok |-> FALSE, status |-> 429, body |-> [kind |-> "invalid"]],
     [kind |-> "response", ok |-> FALSE, status |-> 504, body |-> [kind |-> "invalid"]],
     [kind |-> "response", ok |-> TRUE, status |-> 200, body |-> [kind |-> "invalid"]],
     [kind |-> "response", ok |-> TRUE, status |-> 200,
      body |-> [kind |-> "object", hasElements |-> FALSE, elements |-> <<>>]]}
    \cup {[kind |-> "response", ok |-> TRUE, status |-> 200,
           body |-> [kind |-> "object", hasElements |-> TRUE, elements |-> elements]] :
             elements \in ElementLists}

InitSearch ==
    /\ RngIdle /\ RoofIdle /\ ZoneIdle /\ DesignerIdle /\ LaterIdle
    /\ SearchIdle

NextSearch ==
    \/ \E query \in QuerySet, bbox \in BboxSet : SearchBuildings(query, bbox)
    \/ \E reply \in GeocodeReplies : GeocodeSettles(reply)
    \/ \E reply \in OverpassReplies : OverpassSettles(reply)

SpecSearch == InitSearch /\ [][NextSearch]_vars

(***************************************************************************)
(* C20: a building lookup failure never propagates: searchBuildings never  *)
(* rejects and never returns an error value; when geocoding fails or finds *)
(* nothing, when the Overpass request is rejected or answers with a non-OK *)
(* status, or when parsing the response throws, it resolves to the mock    *)
(* building list.                                                          *)
(***************************************************************************)
IsBuildingList(value) ==
    /\ DOMAIN value = 1..Len(value)
    /\ \A k \in 1..Len(value) : value[k].prefix \in {"building-", "mock-building-"}

ResolvedToFallback(call) ==
    call.kind = "settled" /\ call.outcome = "resolved" /\ call.value = getMockBuildingData

GeocodingFails(reply) ==
    \/ reply.kind = "rejected"
    \/ ~reply.ok
    \/ reply.body.kind # "array"
    \/ reply.body.items = <<>>

OverpassFails(reply) ==
    \/ reply.kind = "rejected"
    \/ ~reply.ok
    \/ reply.body.kind = "invalid"
    \/ ~reply.body.hasElements
    \/ \E k \in 1..Len(reply.body.elements) :
          /\ IsFootprint(reply.body.elements[k])
          /\ ~reply.body.elements[k].tags

SearchNeverRejects ==
    search.kind = "settled" =>
        /\ search.outcome = "resolved"
        /\ IsBuildingList(search.value)
        /\ search.logged # <<>> => search.value = getMockBuildingData

FailuresResolveToFallback ==
    [][/\ \A reply \in GeocodeReplies :
             GeocodeSettles(reply) /\ GeocodingFails(reply) => ResolvedToFallback(search')
       /\ \A reply \in OverpassReplies :
             OverpassSettles(reply) /\ OverpassFails(reply) => ResolvedToFallback(search')]_vars

C20_LookupFailureNeverPropagates == []SearchNeverRejects /\ FailuresResolveToFallback

C20_Witness ==
    /\ search.kind = "settled"
    /\ search.logged = <<"TypeError: tags is undefined">>
    /\ search.searchBbox = [south |-> 55675, west |-> 12567, north |-> 55677, east |-> 12569]
    /\ search.query = "Industrivej 1"
    /\ ResolvedToFallback(search)

(***************************************************************************)
(* The design export of IndustrialRoofDesigner.  A JSON text is the tree   *)
(* of its values: an object is the list of its members in the order        *)
(* JSON.stringify writes them, an array the list of its items.             *)
(***************************************************************************)
JsonNumber(n) == [json |-> "number", value |-> n]

JsonString(s) == [json |-> "string", value |-> s]

JsonArray(items) == [json |-> "array", items |-> items]

JsonObject(members) == [json |-> "object", members |-> members]

JsonNumbers(tuple) == JsonArray([k \in 1..Len(tuple) |-> JsonNumber(tuple[k])])

\* JSON.parse: an object becomes the mapping of its keys, an array a list
RECURSIVE JsonParse(_)
JsonParse(text) ==
    CASE text.json \in {"number", "string"} -> text.value
      [] text.json = "array" ->
            [k \in 1..Len(text.items) |-> JsonParse(text.items[k])]
      [] text.json = "object" ->
            [key \in {text.members[k].key : k \in 1..Len(text.members)} |->
                LET last == CHOOSE k \in 1..Len(text.members) :
                                /\ text.members[k].key = key
                                /\ \A j \in (k + 1)..Len(text.members) :
                                      text.members[j].key # key
                IN  JsonParse(text.members[last].value)]

\* JSON.stringify(designData): the object literal of handleExportDesign
DesignJson(cs, timestamp) ==
    JsonObject(<<
        [key |-> "components",
         value |-> JsonArray([k \in 1..Len(cs) |->
                      JsonObject(<<[key |-> "type", value |-> JsonString(cs[k].type)],
                                   [key |-> "position", value |-> JsonNumbers(cs[k].position)],
                                   [key |-> "rotation", value |-> JsonNumbers(cs[k].rotation)],
                                   [key |-> "scale", value |-> JsonNumbers(cs[k].scale)]>>)])],
        [key |-> "timestamp", value |-> JsonNumber(timestamp)],
        [key |-> "quality", value |-> JsonString("high")],
        [key |-> "lightingStyle", value |-> JsonString("realistic")]>>)

\* handleExportDesign(): the callback of the latest render, so `components`
\* is the rendered list; the download is named after Date.now()
handleExportDesign ==
    /\ published # None
    /\ exported' = [download |-> clock, text |-> DesignJson(components, clock)]
    /\ UNCHANGED <<components, pending, published, clock, selectedComponent,
                   outsideDesigner>>

NextExport ==
    \/ \E type \in ComponentTypeSet, position \in PositionSet :
          AddComponent(type, position)
    \/ \E id \in RenderedIds : handleDeleteComponent(id)
    \/ Render
    \/ Tick
    \/ handleExportDesign

SpecExport == InitDesigner /\ [][NextExport]_vars

(***************************************************************************)
(* C21: exporting the component list to the JSON design format and parsing *)
(* that JSON back yields a component list identical to the exported one:   *)
(* same length, same order, every component equal to the original in all   *)
(* its fields.                                                             *)
(***************************************************************************)
C21_ExportRoundTrip ==
    [][handleExportDesign => JsonParse(exported'.text).components = components]_vars

\* what the round trip does keep: length, order, and the four exported fields
ExportedFields(comp) ==
    [type |-> comp.type, position |-> comp.position, rotation |-> comp.rotation,
     scale |-> comp.scale]

ExportKeepsExportedFields ==
    [][handleExportDesign =>
          JsonParse(exported'.text).components =
              [k \in 1..Len(components) |-> ExportedFields(components[k])]]_vars

(***************************************************************************)
(* C22: in calculateAdvancedMetrics the CO2 term of the solar zones is     *)
(* cumulative: each solar zone, in list order, adds 0.0002 times the       *)
(* energy output accumulated over the solar zones up to and including it,  *)
(* each green zone adds 20 * area * efficiency.  So energyOutput, the      *)
(* areas and the costs are the same for every ordering of a zone list,     *)
(* while co2Reduction changes when two solar zones that contribute         *)
(* different energy change places.                                         *)
(***************************************************************************)
\* the energy zone k adds to energyOutput
EnergyOfZone(zs, k) == EnergyOutput(<<zs[k]>>, climateData[currentLocation].solar, 1)

Co2IsCumulative ==
    LET solar == climateData[currentLocation].solar
    IN  /\ SolarCo2(zones, solar, Len(zones)) =
              RatSum([k \in 1..Len(zones) |->
                         IF zones[k].type = "solar"
                         THEN RatMul(EnergyOutput(zones, solar, k), Rat(2, 10000))
                         ELSE Rat(0, 1)], 1, Len(zones))
        /\ GreenCo2(zones, Len(zones)) =
              RatSum([k \in 1..Len(zones) |->
                         IF zones[k].type = "green"
                         THEN RatMul(Rat(20 * zones[k].area, 1), zones[k].efficiency)
                         ELSE Rat(0, 1)], 1, Len(zones))
        /\ MetricsOf(zones).co2Reduction =
              [solar |-> SolarCo2(zones, solar, Len(zones)),
               green |-> GreenCo2(zones, Len(zones))]

\* zs with the zones at i and j changing places
Swapped(zs, i, j) ==
    [k \in 1..Len(zs) |-> IF k = i THEN zs[j] ELSE IF k = j THEN zs[i] ELSE zs[k]]

\* the sums of calculateAdvancedMetrics other than the solar CO2 term
OrderFreeSums(zs) ==
    <<EnergyOutput(zs, climateData[currentLocation].solar, Len(zs)),
      AreaOfType(zs, "solar", Len(zs)), AreaOfType(zs, "green", Len(zs)),
      AreaOfType(zs, "water", Len(zs)), AreaOfType(zs, "social", Len(zs)),
      TotalCost(zs, Len(zs)), TotalMaintenance(zs, Len(zs)), GreenCo2(zs, Len(zs))>>

OrderOnlyMovesCo2 ==
    LET solar == climateData[currentLocation].solar
        sums  == OrderFreeSums(zones)
        co2   == SolarCo2(zones, solar, Len(zones))
    IN  \A j \in 2..Len(zones) : \A i \in 1..(j - 1) :
            LET there == Swapped(zones, i, j)
            IN  /\ OrderFreeSums(there) = sums
                /\ (zones[i].type = "solar" /\ zones[j].type = "solar")
                      => ((SolarCo2(there, solar, Len(there)) # co2)
                             <=> (EnergyOfZone(zones, i) # EnergyOfZone(zones, j)))
                /\ (zones[i].type # "solar" /\ zones[j].type # "solar")
                      => SolarCo2(there, solar, Len(there)) = co2

\* the handlers that build and empty the zone list, for the claims about
\* the sums over it
NextMetrics ==
    \/ \E x \in XSet, z \in ZSet, type \in ZoneTypeSet, size \in SizeSet :
          CallAddZone(x, z, type, size)
    \/ ClearZones

SpecMetrics == InitZones /\ [][NextMetrics]_vars

C22_Co2CumulativeAndOrderDependent == Co2IsCumulative /\ OrderOnlyMovesCo2

C22_Witness ==
    /\ Len(zones) = 2
    /\ zones[1].type = "solar" /\ zones[2].type = "solar"
    /\ EnergyOfZone(zones, 1) # EnergyOfZone(zones, 2)
    /\ SolarCo2(zones, climateData[currentLocation].solar, 2)
          # SolarCo2(Swapped(zones, 1, 2), climateData[currentLocation].solar, 2)

(***************************************************************************)
(* C23: in optimizeLayout every candidate layout is a perturbation of the  *)
(* layout given at call time: in each iteration every zone of the          *)
(* candidate lies within 2 m in X and within 2 m in Z of that zone's       *)
(* position at the call, building a candidate does not modify the          *)
(* positions of the zones it was derived from, and every zone of the       *)
(* installed result lies within 2 m per axis of its original position.     *)
(* Positions are in decimetres.                                            *)
(***************************************************************************)
Within2m(p, q) ==
    /\ Abs(p.x - q.x) <= 20
    /\ Abs(p.z - q.z) <= 20

AllWithin2m(zs, given) ==
    /\ Len(zs) = Len(given)
    /\ \A k \in 1..Len(zs) : Within2m(zs[k].position, given[k])

\* one draw of (Math.random() - 0.5) * 4 per axis moves a zone by at most 2 m
EachNudgeWithin2m ==
    [][OptimizeIterate =>
          \A k \in 1..Len(zones) : Within2m(zones'[k].position, zones[k].position)]_vars

CandidatesNearGiven == [][OptimizeIterate => AllWithin2m(zones', opt.given)]_vars

SourceZonesUntouched ==
    [][OptimizeIterate =>
          \A k \in 1..Len(zones) : zones'[k].position = zones[k].position]_vars

ResultNearGiven ==
    [][(\E sizes \in SizePatterns : OptimizeFinish(sizes))
          => AllWithin2m(zones', opt.given)]_vars

C23_CandidatesPerturbGivenLayout ==
    CandidatesNearGiven /\ SourceZonesUntouched /\ ResultNearGiven

(***************************************************************************)
(* generateBuildingMesh of building-generator.ts.  A mesh is kept by what  *)
(* it is (wall, roof, loading dock, vent, window) and by the z it is       *)
(* placed at, in tenths of a metre; coordinates are the local ones, lists  *)
(* of points [x, z].  A footprint comes from parseBuildingData, which      *)
(* keeps elements of three or more points, so every section a generator    *)
(* cuts has a first point.                                                 *)
(***************************************************************************)
MaxPoints == 6

Mesh(kind, z) == [kind |-> kind, z |-> z]

generateIndustrialDetails(coordinates) ==
    <<Mesh("loading dock", coordinates[1].z + 10), Mesh("vent", 20)>>

generateCommercialDetails(coordinates) ==
    [i \in 1..4 |-> Mesh("window", coordinates[1].z + 1)]

generateRectangularBuilding(coordinates, footprint) ==
    <<Mesh("wall", 0), Mesh("roof", 0)>>
        \o (IF footprint.buildingType \in {"industrial", "warehouse"}
            THEN generateIndustrialDetails(coordinates)
            ELSE IF footprint.buildingType \in {"commercial", "office"}
                 THEN generateCommercialDetails(coordinates)
                 ELSE <<>>)

generateLShapedBuilding(coordinates, footprint) ==
    LET midPoint == Len(coordinates) \div 2
    IN  generateRectangularBuilding(SubSeq(coordinates, 1, midPoint), footprint)
           \o generateRectangularBuilding(
                  SubSeq(coordinates, midPoint + 1, Len(coordinates)), footprint)

generateUShapedBuilding(coordinates, footprint) ==
    LET third == Len(coordinates) \div 3
    IN  generateRectangularBuilding(SubSeq(coordinates, 1, third), footprint)
           \o generateRectangularBuilding(
                  SubSeq(coordinates, third + 1, third * 2), footprint)
           \o generateRectangularBuilding(
                  SubSeq(coordinates, third * 2 + 1, Len(coordinates)), footprint)

\* the cylinder wall and the circle roof
generateCircularBuilding(coordinates, footprint) ==
    <<Mesh("wall", 0), Mesh("roof", 0)>>

\* the extruded shape and its roof
generateIrregularBuilding(coordinates, footprint) ==
    <<Mesh("wall", 0), Mesh("roof", 0)>>

\* the meshes of generateBuildingMesh(footprint)
generateBuildingMesh(footprint) ==
    CASE footprint.shape = "rectangular" ->
            generateRectangularBuilding(footprint.coordinates, footprint)
      [] footprint.shape = "l-shaped" ->
            generateLShapedBuilding(footprint.coordinates, footprint)
      [] footprint.shape = "u-shaped" ->
            generateUShapedBuilding(footprint.coordinates, footprint)
      [] footprint.shape = "circular" ->
            generateCircularBuilding(footprint.coordinates, footprint)
      [] OTHER -> generateIrregularBuilding(footprint.coordinates, footprint)

CallGenerateBuildingMesh(footprint) ==
    /\ building' = [footprint |-> footprint, meshes |-> generateBuildingMesh(footprint)]
    /\ UNCHANGED <<rngVars, roofVars, zoneVars, designerVars, search, manager, planner>>

ShapeSet == {"rectangular", "l-shaped", "u-shaped", "circular", "irregular"}

BuildingTypeSet ==
    {"industrial", "warehouse", "commercial", "office", "residential", "undefined"}

\* the first n corners of a footprint outline
Outline(n) == [k \in 1..n |-> [x |-> (k * 37) % 50, z |-> (k * 23) % 40]]

FootprintSet ==
    [shape : ShapeSet, buildingType : BuildingTypeSet,
     coordinates : {Outline(n) : n \in 3..MaxPoints}]

InitBuilding ==
    /\ RngIdle /\ RoofIdle /\ ZoneIdle /\ DesignerIdle /\ SearchIdle
    /\ building = None
    /\ manager = None
    /\ planner = None

NextBuilding == \E footprint \in FootprintSet : CallGenerateBuildingMesh(footprint)

SpecBuilding == InitBuilding /\ [][NextBuilding]_vars

(***************************************************************************)
(* C24: for every footprint shape generateBuildingMesh adds the            *)
(* building-type detail meshes on top of the wall and roof meshes: loading *)
(* dock and vent meshes when buildingType is industrial or warehouse,      *)
(* window meshes when it is commercial or office, none for other types.    *)
(***************************************************************************)
MeshKinds(meshes) == {meshes[k].kind : k \in 1..Len(meshes)}

DetailsMatchType(call) ==
    LET kinds == MeshKinds(call.meshes)
    IN  /\ {"wall", "roof"} \subseteq kinds
        /\ kinds \ {"wall", "roof"} =
              IF call.footprint.buildingType \in {"industrial", "warehouse"}
              THEN {"loading dock", "vent"}
              ELSE IF call.footprint.buildingType \in {"commercial", "office"}
                   THEN {"window"}
                   ELSE {}

C24_DetailMeshesForEveryShape == building # None => DetailsMatchType(building)

\* the same for the shapes built from rectangular sections
DetailMeshesForSectionedShapes ==
    (building # None
       /\ building.footprint.shape \in {"rectangular", "l-shaped", "u-shaped"})
        => DetailsMatchType(building)

(***************************************************************************)
(* UndoRedoManager.  `history` holds the HistoryState objects, each by its *)
(* id (the number of the pushState call that made it) and its action;      *)
(* currentIndex is the 0-based index of the code.  `ret` is what the last  *)
(* call returned, `pushes` and `rewinds` count the calls made.             *)
(***************************************************************************)
maxHistorySize == 50

MaxExtraPushes == 2

MaxRewinds == 2

Null == [kind |-> "null"]

\* new UndoRedoManager()
NewManager ==
    [history |-> <<>>, currentIndex |-> -1, ret |-> None, pushes |-> 0, rewinds |-> 0]

\* history[currentIndex]
StateAt(m, index) == m.history[index + 1]

canUndo(m) == m.currentIndex > 0

canRedo(m) == m.currentIndex < Len(m.history) - 1

getCurrentState(m) ==
    IF m.currentIndex >= 0 /\ m.currentIndex < Len(m.history)
    THEN StateAt(m, m.currentIndex)
    ELSE Null

pushState_KeepsUndone(m, action) ==
    LET newState == [id |-> m.pushes + 1, action |-> action]
        pushed   == Append(m.history, newState)
    IN  IF Len(pushed) > maxHistorySize
        THEN [m EXCEPT !.history = Tail(pushed), !.currentIndex = Len(pushed) - 1 - 1,
                       !.ret = None, !.pushes = m.pushes + 1]
        ELSE [m EXCEPT !.history = pushed, !.currentIndex = Len(pushed) - 1,
                       !.ret = None, !.pushes = m.pushes + 1]

\* pushState(action, data, description) on manager m
pushState(m, action) ==
    LET kept     == SubSeq(m.history, 1, m.currentIndex + 1)
        newState == [id |-> m.pushes + 1, action |-> action]
        pushed   == Append(kept, newState)
    IN  IF Len(pushed) > maxHistorySize
        THEN [m EXCEPT !.history = Tail(pushed), !.currentIndex = Len(pushed) - 1 - 1,
                       !.ret = None, !.pushes = m.pushes + 1]
        ELSE [m EXCEPT !.history = pushed, !.currentIndex = Len(pushed) - 1,
                       !.ret = None, !.pushes = m.pushes + 1]

undo(m) ==
    IF m.currentIndex > 0
    THEN [m EXCEPT !.currentIndex = m.currentIndex - 1,
                   !.ret = StateAt(m, m.currentIndex - 1)]
    ELSE [m EXCEPT !.ret = Null]

redo(m) ==
    IF m.currentIndex < Len(m.history) - 1
    THEN [m EXCEPT !.currentIndex = m.currentIndex + 1,
                   !.ret = StateAt(m, m.currentIndex + 1)]
    ELSE [m EXCEPT !.ret = Null]

clear(m) == [m EXCEPT !.history = <<>>, !.currentIndex = -1, !.ret = None]

CallPushState(action) ==
    /\ manager.pushes < maxHistorySize + MaxExtraPushes
    /\ manager' = pushState(manager, action)
    /\ UNCHANGED <<rngVars, roofVars, zoneVars, designerVars, search, building, planner>>

CallUndo ==
    /\ manager.rewinds < MaxRewinds
    /\ manager' = [undo(manager) EXCEPT !.rewinds = manager.rewinds + 1]
    /\ UNCHANGED <<rngVars, roofVars, zoneVars, designerVars, search, building, planner>>

CallRedo ==
    /\ manager' = redo(manager)
    /\ UNCHANGED <<rngVars, roofVars, zoneVars, designerVars, search, building, planner>>

CallClear ==
    /\ manager.rewinds < MaxRewinds
    /\ manager' = [clear(manager) EXCEPT !.rewinds = manager.rewinds + 1]
    /\ UNCHANGED <<rngVars, roofVars, zoneVars, designerVars, search, building, planner>>

InitHistory ==
    /\ RngIdle /\ RoofIdle /\ ZoneIdle /\ DesignerIdle /\ SearchIdle
    /\ building = None
    /\ manager = NewManager
    /\ planner = None

NextHistory ==
    \/ CallPushState("ADD_COMPONENT")
    \/ CallUndo
    \/ CallRedo
    \/ CallClear

SpecHistory == InitHistory /\ [][NextHistory]_vars

(***************************************************************************)
(* C25: UndoRedoManager keeps its cursor inside the history after any      *)
(* sequence of pushState, undo, redo and clear: history.length <= 50,      *)
(* -1 <= currentIndex <= history.length - 1, currentIndex = -1 exactly     *)
(* when the history is empty, and right after every pushState the pushed   *)
(* state is the last entry and the current one (canRedo() is false, the    *)
(* states undone before are discarded).                                    *)
(***************************************************************************)
CursorInsideHistory ==
    /\ Len(manager.history) <= 50
    /\ -1 <= manager.currentIndex
    /\ manager.currentIndex <= Len(manager.history) - 1
    /\ (manager.currentIndex = -1) <=> (manager.history = <<>>)

PushedStateIsCurrent ==
    [][CallPushState("ADD_COMPONENT") =>
          /\ manager'.history # <<>>
          /\ manager'.history[Len(manager'.history)].id = manager.pushes + 1
          /\ getCurrentState(manager') = manager'.history[Len(manager'.history)]
          /\ ~canRedo(manager')
          /\ \A k \in 1..Len(manager.history) :
                k > manager.currentIndex + 1 =>
                    \A j \in 1..Len(manager'.history) :
                        manager'.history[j] # manager.history[k]]_vars

C25_CursorInsideHistory == []CursorInsideHistory /\ PushedStateIsCurrent

\* a push that drops the oldest state, on a history that had a state undone
\* and replaced before
C25_Witness ==
    /\ Len(manager.history) = 50
    /\ manager.currentIndex = 49
    /\ manager.history[1].id = 2
    /\ manager.history[50].id = manager.pushes
    /\ \E k \in 1..49 : manager.history[k + 1].id > manager.history[k].id + 1

(***************************************************************************)
(* C26: every recorded action can be undone: after n pushState calls on a  *)
(* fresh UndoRedoManager (1 <= n <= 50) canUndo() is true and undo()       *)
(* returns a non-null state n times in a row before returning null, and a  *)
(* redo() directly after a successful undo() makes current again the state *)
(* that was current before that undo.                                      *)
(***************************************************************************)
\* the manager after k undo() calls in a row
RECURSIVE Undone(_, _)
Undone(m, k) == IF k = 0 THEN m ELSE undo(Undone(m, k - 1))

\* n pushState calls, and no undo or clear, have been made on the manager
FreshAfterPushes(n) ==
    manager.rewinds = 0 /\ manager.pushes = n /\ n >= 1 /\ n <= maxHistorySize

UndoSucceedsTimes(n, times) ==
    /\ \A k \in 1..times : Undone(manager, k).ret # Null
    /\ Undone(manager, times + 1).ret = Null

EveryPushCanBeUndone ==
    \A n \in 1..maxHistorySize :
        FreshAfterPushes(n) => canUndo(manager) /\ UndoSucceedsTimes(n, n)

RedoRestoresCurrent ==
    [][(CallUndo /\ manager'.ret # Null) =>
          /\ redo(manager').ret = getCurrentState(manager)
          /\ getCurrentState(redo(manager')) = getCurrentState(manager)]_vars

C26_EveryActionCanBeUndone == []EveryPushCanBeUndone /\ RedoRestoresCurrent

\* what the manager does: the first state pushed is never undone
AllButFirstPushCanBeUndone ==
    \A n \in 1..maxHistorySize :
        FreshAfterPushes(n) =>
            /\ canUndo(manager) <=> n > 1
            /\ UndoSucceedsTimes(n, n - 1)

(***************************************************************************)
(* The planner store of planner-store.ts.  Lengths are in millimetres.  A  *)
(* layout is kept by its id, its name (the words added to it in order)     *)
(* and the type, place, width and height of its blocks; kpis is a function *)
(* of the blocks.  generateId() is taken to return a new id at each call;  *)
(* the ids of the blocks are not kept.  `waiting` holds, in the order of   *)
(* their timeouts, the layout each optimizeLayout call read before its     *)
(* await.                                                                  *)
(***************************************************************************)
MaxOptimizeCalls == 2

MaxLayoutChanges == 2

DEFAULT_ROOF_SIZE == [width |-> 200000, height |-> 150000]

\* percentages in hundredths, in the key order of the object literals
PRESET_SPLITS ==
    [CO2    |-> <<[type |-> "SOLAR", percentage |-> 45], [type |-> "GREEN", percentage |-> 35],
                  [type |-> "WATER", percentage |-> 15], [type |-> "SOCIAL", percentage |-> 5]>>,
     ENERGY |-> <<[type |-> "SOLAR", percentage |-> 60], [type |-> "GREEN", percentage |-> 20],
                  [type |-> "WATER", percentage |-> 15], [type |-> "SOCIAL", percentage |-> 5]>>,
     BIODIVERSITY |->
                <<[type |-> "SOLAR", percentage |-> 30], [type |-> "GREEN", percentage |-> 50],
                  [type |-> "WATER", percentage |-> 15], [type |-> "SOCIAL", percentage |-> 5]>>]

\* the store as created; ids counts the generateId() calls, calls the
\* optimizeLayout calls and changes the calls of the other setters
NewStore ==
    [currentLayout |-> Null, selectedPriority |-> "CO2", isOptimizing |-> FALSE,
     waiting |-> <<>>, ids |-> 0, calls |-> 0, changes |-> 0]

\* setLayout(layout)
setLayout(store, layout) ==
    [store EXCEPT !.currentLayout = layout, !.changes = store.changes + 1]

\* setPriority(priority)
setPriority(store, priority) == [store EXCEPT !.selectedPriority = priority]

\* updateBlocks(blocks)
updateBlocks(store, blocks) ==
    IF store.currentLayout = Null THEN store
    ELSE [store EXCEPT !.currentLayout = [store.currentLayout EXCEPT !.blocks = blocks],
                       !.changes = store.changes + 1]

\* applyPreset(priority)
applyPreset(store, priority) ==
    LET split  == PRESET_SPLITS[priority]
        blockHeight(k) == (DEFAULT_ROOF_SIZE.height * split[k].percentage) \div 100
        \* currentY when block k is pushed
        currentY[k \in 1..Len(split)] == IF k = 1 THEN 0 ELSE currentY[k - 1] + blockHeight(k - 1)
        blocks == [k \in 1..Len(split) |->
                      [type |-> split[k].type, x |-> 0, y |-> currentY[k],
                       width |-> DEFAULT_ROOF_SIZE.width, height |-> blockHeight(k)]]
    IN  [store EXCEPT !.currentLayout = [id |-> store.ids + 1, name |-> <<priority, "Layout">>,
                                         blocks |-> blocks],
                      !.selectedPriority = priority,
                      !.ids = store.ids + 1, !.changes = store.changes + 1]

\* resetLayout()
resetLayout(store) ==
    [store EXCEPT !.currentLayout = Null, !.changes = store.changes + 1]

\* optimizeLayout() up to its await
optimizeLayoutStart(store) ==
    IF store.currentLayout = Null THEN [store EXCEPT !.calls = store.calls + 1]
    ELSE [store EXCEPT !.isOptimizing = TRUE,
                       !.waiting = Append(store.waiting, store.currentLayout),
                       !.calls = store.calls + 1]

\* the layout optimizeLayout makes of the one it read; factors are the
\* draws of 0.95 + Math.random() * 0.1, in hundredths
Optimized(layout, id, factors) ==
    [id |-> id, name |-> Append(layout.name, "(Optimized)"),
     blocks |-> [k \in 1..Len(layout.blocks) |->
                    [layout.blocks[k] EXCEPT
                        !.width = (layout.blocks[k].width * factors.width) \div 100,
                        !.height = (layout.blocks[k].height * factors.height) \div 100]]]

\* optimizeLayout() after its await, for the call that has waited longest
optimizeLayoutResume(store, factors) ==
    [store EXCEPT !.currentLayout = Optimized(Head(store.waiting), store.ids + 1, factors),
                  !.isOptimizing = FALSE,
                  !.waiting = Tail(store.waiting), !.ids = store.ids + 1]

PlannerStep(store) ==
    /\ planner' = store
    /\ UNCHANGED <<rngVars, roofVars, zoneVars, designerVars, search, building, manager>>

CallSetLayout(layout) ==
    planner.changes < MaxLayoutChanges /\ PlannerStep(setLayout(planner, layout))

CallSetPriority(priority) ==
    planner # None /\ PlannerStep(setPriority(planner, priority))

CallUpdateBlocks(blocks) ==
    planner.changes < MaxLayoutChanges /\ PlannerStep(updateBlocks(planner, blocks))

CallApplyPreset(priority) ==
    planner.changes < MaxLayoutChanges /\ PlannerStep(applyPreset(planner, priority))

CallResetLayout ==
    planner.changes < MaxLayoutChanges /\ PlannerStep(resetLayout(planner))

CallOptimizeLayout ==
    planner.calls < MaxOptimizeCalls /\ PlannerStep(optimizeLayoutStart(planner))

\* the 2 s timeout of the longest-waiting optimizeLayout call fires
OptimizeLayoutResumes(factors) ==
    planner.waiting # <<>> /\ PlannerStep(optimizeLayoutResume(planner, factors))

GivenLayouts ==
    {[id |-> 0, name |-> <<"Imported">>,
      blocks |-> <<[type |-> "GREEN", x |-> 0, y |-> 0, width |-> 100000, height |-> 50000]>>]}

GivenBlocks == {<<[type |-> "SOLAR", x |-> 0, y |-> 0, width |-> 40000, height |-> 20000]>>}

FactorSet == {[width |-> 95, height |-> 105], [width |-> 105, height |-> 100]}

InitPlanner ==
    /\ RngIdle /\ RoofIdle /\ ZoneIdle /\ DesignerIdle /\ SearchIdle
    /\ building = None
    /\ manager = None
    /\ planner = NewStore

NextPlanner ==
    \/ \E layout \in GivenLayouts : CallSetLayout(layout)
    \/ \E priority \in DOMAIN PRESET_SPLITS : CallSetPriority(priority)
    \/ \E blocks \in GivenBlocks : CallUpdateBlocks(blocks)
    \/ \E priority \in DOMAIN PRESET_SPLITS : CallApplyPreset(priority)
    \/ CallResetLayout
    \/ CallOptimizeLayout
    \/ \E factors \in FactorSet : OptimizeLayoutResumes(factors)

SpecPlanner == InitPlanner /\ [][NextPlanner]_vars

(***************************************************************************)
(* C27: in the planner store a change made while an optimization is        *)
(* pending is not lost: if updateBlocks, applyPreset, setLayout or         *)
(* resetLayout runs between the start of optimizeLayout and its completion *)
(* 2 s later (or a second optimizeLayout is started in that window), then  *)
(* after all pending optimizations complete isOptimizing is false and      *)
(* currentLayout reflects that later change (it stays null after           *)
(* resetLayout) instead of being overwritten by a layout derived from the  *)
(* blocks read when the optimization started.                              *)
(***************************************************************************)
NotOptimizingWhenNonePending == planner.waiting = <<>> => ~planner.isOptimizing

\* the layout `to` is `from`, or what an optimization makes of `from`
ReflectsLayout(to, from) ==
    \/ to = from
    \/ /\ from # Null /\ to # Null
       /\ to.name = Append(from.name, "(Optimized)")

LaterChangeSurvives ==
    [][\A factors \in FactorSet :
          (OptimizeLayoutResumes(factors) /\ planner.currentLayout # Head(planner.waiting))
              => ReflectsLayout(planner'.currentLayout, planner.currentLayout)]_vars

C27_PendingOptimizationKeepsLaterChange ==
    []NotOptimizingWhenNonePending /\ LaterChangeSurvives

\* an optimization that finds the layout it read still current installs
\* the layout made of it
UndisturbedOptimizationInstalls ==
    [][\A factors \in FactorSet :
          (OptimizeLayoutResumes(factors) /\ planner.currentLayout = Head(planner.waiting))
              => /\ planner'.currentLayout.name
                       = Append(planner.currentLayout.name, "(Optimized)")
                 /\ ~planner'.isOptimizing]_vars

(***************************************************************************)
(* C28: every zone in the zone list always carries the efficiency that its *)
(* type and position have under the current settings: after any sequence   *)
(* of addZone, updateClimate and roof width / length changes,              *)
(* zone.efficiency equals calculateZoneEfficiency(zone.type,               *)
(* zone.position) evaluated with the current climate and roof dimensions,  *)
(* so the computed metrics are a function of the zone list and the current *)
(* climate only.                                                           *)
(***************************************************************************)
EfficiencyCurrent(zone) ==
    zone.efficiency = calculateZoneEfficiency(zone.type, zone.position.x, zone.position.z)

C28_ZoneEfficiencyFollowsSettings ==
    \A k \in 1..Len(zones) : EfficiencyCurrent(zones[k])

\* addZone stores the efficiency of the settings it runs under, and neither
\* updateClimate nor a roof change touches a stored zone
EfficiencyIsOfAddTime ==
    [][/\ \A k \in 1..Len(zones) :
             (Len(zones') >= k /\ zones'[k].position = zones[k].position)
                 => zones'[k].efficiency = zones[k].efficiency
       /\ (Len(zones') = Len(zones) + 1 /\ currentLocation' = currentLocation
                                         /\ roofLength' = roofLength)
             => EfficiencyCurrent(zones'[Len(zones')])]_vars

(***************************************************************************)
(* SpecIds: the designer with room for two components, driven by the       *)
(* panels that add, duplicate, select, move and delete                     *)
(***************************************************************************)
MaxListed == 2

ListedTypeSet == {"solar", "hvac"}

AddListed(type, position) ==
    Len(components) < MaxListed /\ handleAddComponent(type, position)

DuplicateListed(component) ==
    Len(components) < MaxListed /\ duplicateComponent(component)

NextIds ==
    \/ \E type \in ListedTypeSet : AddListed(type, <<0, 0, 0>>)
    \/ \E k \in 1..Len(components) : DuplicateListed(components[k])
    \/ \E id \in RenderedIds : handleSelectComponent(id)
    \/ \E id \in RenderedIds : handleMoveComponent(id, <<1, 0, 2>>)
    \/ \E id \in RenderedIds : handleRotateComponent(id, <<0, 90, 0>>)
    \/ \E id \in RenderedIds : handleScaleComponent(id, <<2, 1, 1>>)
    \/ \E id \in RenderedIds : handleDeleteComponent(id)
    \/ Render
    \/ Tick

SpecIds == InitDesigner /\ [][NextIds]_vars

(***************************************************************************)
(* C29: component ids are unique in the component list after any sequence  *)
(* of add, duplicate, select, move, rotate, scale and delete operations    *)
(* (including two adds of the same type within the same clock              *)
(* millisecond), so deleting a component by id removes exactly one         *)
(* component and moving, rotating, scaling or selecting by id affects      *)
(* exactly one component.                                                  *)
(***************************************************************************)
IdsUnique(cs) ==
    \A j, k \in 1..Len(cs) : cs[j].id = cs[k].id => j = k

\* the number of places at which the lists differ
Touched(before, after) ==
    Cardinality({k \in 1..Len(before) : after[k] # before[k]})

\* a render that applies a delete drops one component; one that applies a
\* move, rotation, scaling or selection changes at most one component
\* besides the one that loses the selection
ByIdAffectsOne ==
    [][Render =>
          CASE pending.op = "delete" -> Len(components') = Len(components) - 1
            [] pending.op \in {"move", "rotate", "scale"} ->
                  Touched(components, components') <= 1
            [] pending.op = "select" ->
                  Cardinality({k \in 1..Len(components') : components'[k].selected}) = 1
            [] OTHER -> TRUE]_vars

C29_ComponentIdsUnique == []IdsUnique(components) /\ ByIdAffectsOne

\* ids are unique among components added in different milliseconds or of
\* different types
IdsUniqueAcrossMilliseconds ==
    \A j, k \in 1..Len(components) :
        (components[j].id = components[k].id /\ j # k)
            => /\ components[j].type = components[k].type
               /\ components[j].id[2] = components[k].id[2]

(***************************************************************************)
(* C30: determineBuildingShape returns normally for every coordinate list: *)
(* it yields exactly one of rectangular, l-shaped, u-shaped, circular,     *)
(* irregular (irregular for fewer than 3 points) and never throws, so      *)
(* parseBuildingData turns an Overpass response containing non-rectangular *)
(* buildings (polygons with a number of points other than 4) into their    *)
(* real footprints rather than failing and causing searchBuildings to      *)
(* return the mock dataset.                                                *)
(***************************************************************************)
ShapeDetermined(coordinates) ==
    LET shape == determineBuildingShape(coordinates)
    IN  /\ ~shape.threw
        /\ shape.value \in ShapeSet
        /\ Len(coordinates) < 3 => shape.value = "irregular"

\* an OK response with elements whose footprints all carry tags
Parseable(reply) ==
    /\ reply.kind = "response" /\ reply.ok
    /\ reply.body.kind = "object" /\ reply.body.hasElements
    /\ \A k \in 1..Len(reply.body.elements) :
          IsFootprint(reply.body.elements[k]) => reply.body.elements[k].tags

\* the ids of the footprint elements of the response, in order
FootprintIds(reply) ==
    LET footprints == SelectSeq(reply.body.elements, IsFootprint)
    IN  [k \in 1..Len(footprints) |-> footprints[k].id]

\* the lookup resolved to the buildings of the response
ResolvedToFootprints(call, reply) ==
    /\ call.kind = "settled" /\ call.outcome = "resolved"
    /\ Len(call.value) = Len(FootprintIds(reply))
    /\ \A k \in 1..Len(call.value) :
          call.value[k].prefix = "building-" /\ call.value[k].id = FootprintIds(reply)[k]

C30_ShapeOfEveryFootprintDetermined ==
    [][\A reply \in OverpassReplies :
          (OverpassSettles(reply) /\ Parseable(reply))
              => /\ \A k \in 1..Len(reply.body.elements) :
                       ShapeDetermined(reply.body.elements[k].geometry)
                 /\ ResolvedToFootprints(search', reply)]_vars

\* what does hold: lists of fewer than 3 points and four-corner lists with
\* every angle within 15 degrees of a right angle get their shape, and a
\* response whose footprints are all of that kind resolves to them
RectangularFootprintsParsed ==
    [][\A reply \in OverpassReplies :
          (/\ OverpassSettles(reply) /\ Parseable(reply)
           /\ \A k \in 1..Len(reply.body.elements) :
                 \/ Len(reply.body.elements[k].geometry) < 3
                 \/ isRoughlyRectangular(reply.body.elements[k].geometry))
              => /\ \A k \in 1..Len(reply.body.elements) :
                       ShapeDetermined(reply.body.elements[k].geometry)
                 /\ ResolvedToFootprints(search', reply)]_vars

====
